---- MODULE Spec2Model ----
(***************************************************************************)
(* A model of the fractalrust terminal fractal generator:                  *)
(*   src/src/fractal.rs   FractalGenerator (escape-time engine)            *)
(*   src/src/app.rs       App (event handlers, result cache)               *)
(*                                                                         *)
(* Numbers.  f64 values are modelled in fixed point.  A coordinate         *)
(* (center_x, center_y) r is the integer r * CoordUnit, a zoom r is the    *)
(* integer r * ZoomUnit, and the escape-time arithmetic works on integers  *)
(* r * Scale.  Divisions round toward minus infinity.                      *)
(* Grids (Vec<Vec<u32>>) are functions [0..h-1 -> [0..w-1 -> Nat]], so     *)
(* indices are the 0-based indices of the source.                          *)
(***************************************************************************)
EXTENDS Integers, Sequences, FiniteSets, TLC

\* ------------------------------------------------------------------------
\* Fixed-point arithmetic standing for f64
\* ------------------------------------------------------------------------

\* One unit of the escape-time arithmetic is 1/Scale.
Scale == 10 ^ 3
\* One unit of a stored coordinate is 1/CoordUnit: one digit finer than the six
\* decimals of the cache key.
CoordUnit == 10 ^ 7
\* One unit of a stored zoom is 1/ZoomUnit: one digit finer than the three
\* decimals of the cache key.
ZoomUnit == 10 ^ 4

Max(a, b) == IF a >= b THEN a ELSE b
Min(a, b) == IF a <= b THEN a ELSE b
Abs(a) == IF a < 0 THEN -a ELSE a

\* f64::NAN: a value outside the range of the fixed-point numbers.  Arithmetic on
\* it gives NaN and every comparison with it is false.
NaN == -(2 ^ 30)

\* Complex<f64>: a pair <<re, im>> of fixed-point numbers.  A complex number
\* with a NaN part is kept as CNaN: its norm_sqr is NaN and so is every part of
\* whatever is computed from it by the rules below.
Re(z) == z[1]
Im(z) == z[2]
IsNaN(z) == Re(z) = NaN \/ Im(z) = NaN
CNaN == <<NaN, NaN>>
CAdd(z, w) ==
    IF IsNaN(z) \/ IsNaN(w) THEN CNaN ELSE <<Re(z) + Re(w), Im(z) + Im(w)>>
CMul(z, w) ==
    IF IsNaN(z) \/ IsNaN(w) THEN CNaN
    ELSE << (Re(z) * Re(w) - Im(z) * Im(w)) \div Scale,
            (Re(z) * Im(w) + Im(z) * Re(w)) \div Scale >>
CConj(z) == IF IsNaN(z) THEN CNaN ELSE <<Re(z), -Im(z)>>
\* Complex::new(z.re.abs(), z.im.abs())
CAbsParts(z) == IF IsNaN(z) THEN CNaN ELSE <<Abs(Re(z)), Abs(Im(z))>>
\* 1 / z for z # 0
CInv(z) ==
    LET n == (Re(z) * Re(z) + Im(z) * Im(z)) \div Scale
    IN  IF n = 0 THEN CNaN ELSE <<(Re(z) * Scale) \div n, (-Im(z) * Scale) \div n>>
\* Complex::norm_sqr compared with 4.0: both sides kept at scale Scale^2.
NormSqrLe4(z) == ~IsNaN(z) /\ Re(z) * Re(z) + Im(z) * Im(z) <= 4 * Scale * Scale

\* Complex::powf for integral exponents: the polar form r^p * cis(p * theta).
\* For p >= 1 it equals the repeated product and for p = 0 it is 1.  For p < 0
\* and z = 0 it is from_polar(inf, -0.0) = (inf, inf * -0.0) = (inf, NaN).
RECURSIVE CPowf(_, _)
CPowf(z, power) ==
    IF IsNaN(z) THEN CNaN
    ELSE IF power = 0 THEN <<Scale, 0>>
    ELSE IF power < 0
         THEN IF z = <<0, 0>> THEN CNaN ELSE CPowf(CInv(z), -power)
    ELSE IF power = 1 THEN z
    ELSE CMul(z, CPowf(z, power - 1))

\* ------------------------------------------------------------------------
\* src/src/fractal.rs : per-point escape-time loops
\* ------------------------------------------------------------------------

\* One application of a variant's rule, the body of the while loops.
IterationStep(rule, z, c, power) ==
    CASE rule = "mandelbrot"   -> CAdd(CMul(z, z), c)
      [] rule = "julia"        -> CAdd(CMul(z, z), c)
      [] rule = "burning_ship" -> LET a == CAbsParts(z)
                                  IN  CAdd(CMul(a, a), c)
      [] rule = "tricorn"      -> LET a == CConj(z) IN CAdd(CMul(a, a), c)
      [] rule = "multibrot"    -> CAdd(CPowf(z, power), c)

\* while iterations < max_iterations && z.norm_sqr() <= 4.0 { step; iterations += 1 }
\* The loop state is [z, iterations].  EscapeRun runs the loop for at most fuel
\* passes and EscapeLoop runs it to its end, a stretch of passes at a time (this
\* only keeps the evaluation shallow; the passes are those of the one loop).
RECURSIVE EscapeRun(_, _, _, _, _, _)
EscapeRun(rule, st, c, power, max_iter, fuel) ==
    IF fuel > 0 /\ st.iterations < max_iter /\ NormSqrLe4(st.z)
    THEN EscapeRun(rule,
                   [z |-> IterationStep(rule, st.z, c, power),
                    iterations |-> st.iterations + 1],
                   c, power, max_iter, fuel - 1)
    ELSE st

\* The loop state the loop ends in.
RECURSIVE EscapeEnd(_, _, _, _, _)
EscapeEnd(rule, st, c, power, max_iter) ==
    LET next == EscapeRun(rule, st, c, power, max_iter, 2 ^ 5)
    IN  IF next.iterations = st.iterations
        THEN st
        ELSE EscapeEnd(rule, next, c, power, max_iter)

\* The value the function returns: iterations.
EscapeLoop(rule, st, c, power, max_iter) ==
    EscapeEnd(rule, st, c, power, max_iter).iterations

mandelbrot_iterations(c, max_iter) ==
    EscapeLoop("mandelbrot", [z |-> <<0, 0>>, iterations |-> 0], c, 2, max_iter)

julia_iterations(z, c, max_iter) ==
    EscapeLoop("julia", [z |-> z, iterations |-> 0], c, 2, max_iter)

burning_ship_iterations(c, max_iter) ==
    EscapeLoop("burning_ship", [z |-> <<0, 0>>, iterations |-> 0], c, 2, max_iter)

tricorn_iterations(c, max_iter) ==
    EscapeLoop("tricorn", [z |-> <<0, 0>>, iterations |-> 0], c, 2, max_iter)

multibrot_iterations(c, power, max_iter) ==
    EscapeLoop("multibrot", [z |-> <<0, 0>>, iterations |-> 0], c, power, max_iter)

\* ------------------------------------------------------------------------
\* src/src/fractal.rs : viewport and grids
\* ------------------------------------------------------------------------

\* 2.0 / zoom, in units of 1/Scale
TwoOverZoom(zoom) == (2 * Scale * ZoomUnit) \div zoom

\* A stored coordinate in units of 1/Scale
ToScale(coord) == coord \div (CoordUnit \div Scale)

\* The plane coordinate of pixel (x, y): x_min + x * x_scale, y_min + y * y_scale
\* with x_scale = (x_max - x_min) / width, y_scale = (y_max - y_min) / height.
PixelPoint(params, x, y) ==
    LET x_min == ToScale(params.center_x) - TwoOverZoom(params.zoom)
        x_max == ToScale(params.center_x) + TwoOverZoom(params.zoom)
        y_min == ToScale(params.center_y) - TwoOverZoom(params.zoom)
        y_max == ToScale(params.center_y) + TwoOverZoom(params.zoom)
        x_scale == (x_max - x_min) \div params.width
        y_scale == (y_max - y_min) \div params.height
    IN  <<x_min + x * x_scale, y_min + y * y_scale>>

\* The budget of generate_mandelbrot: performance_mode first, then quality_mode.
PerformanceFloor == 20
QualityCap == 512

\* u32 arithmetic of params.max_iterations * 3 / 2, on the 16-bit halves of n
\* (n up to 2^31 - 1). The product is kept modulo 2^32, as a build without
\* overflow checks computes it; TimesThreeOverflows tells when the exact
\* product does not fit in a u32, where a build with overflow checks panics
\* with "attempt to multiply with overflow".
TimesThreeHigh(n) == (n \div 2 ^ 16) * 3 + ((n % 2 ^ 16) * 3) \div 2 ^ 16
TimesThreeOverflows(n) == TimesThreeHigh(n) >= 2 ^ 16
\* (n * 3 mod 2^32) / 2
TimesThreeHalved(n) ==
    (TimesThreeHigh(n) % 2 ^ 16) * 2 ^ 15 + (((n % 2 ^ 16) * 3) % 2 ^ 16) \div 2

\* A budget that consults quality_mode before performance_mode.
MandelbrotBudgetQualityFirst(gen, max_iter) ==
    IF gen.quality_mode
    THEN Min(TimesThreeHalved(max_iter), QualityCap)
    ELSE IF gen.performance_mode
         THEN Max(max_iter \div 2, PerformanceFloor)
         ELSE max_iter

MandelbrotBudget(gen, max_iter) ==
    IF gen.performance_mode
    THEN Max(max_iter \div 2, PerformanceFloor)
    ELSE IF gen.quality_mode
         THEN Min(TimesThreeHalved(max_iter), QualityCap)
         ELSE max_iter

\* zoom > 10.0
AdaptiveZoom == 10

generate_mandelbrot_adaptive(params, max_iter) ==
    LET width  == params.width
        height == params.height
        sample_step   == 2
        sample_width  == (width + sample_step - 1) \div sample_step
        sample_height == (height + sample_step - 1) \div sample_step
        sampled_data ==
            [sy \in 0..(sample_height - 1) |->
                [sx \in 0..(sample_width - 1) |->
                    mandelbrot_iterations(
                        PixelPoint(params, sx * sample_step, sy * sample_step),
                        max_iter)]]
    IN  [y \in 0..(height - 1) |->
            [x \in 0..(width - 1) |->
                LET sx == Min(x \div sample_step, sample_width - 1)
                    sy == Min(y \div sample_step, sample_height - 1)
                IN  sampled_data[sy][sx]]]

\* generate_mandelbrot that samples adaptively from zoom 10.0 on (>= for >).
generate_mandelbrot_from_threshold(gen, params) ==
    LET max_iter == MandelbrotBudget(gen, params.max_iterations)
    IN  IF gen.use_adaptive_sampling /\ params.zoom >= AdaptiveZoom * ZoomUnit
        THEN generate_mandelbrot_adaptive(params, max_iter)
        ELSE [y \in 0..(params.height - 1) |->
                [x \in 0..(params.width - 1) |->
                    mandelbrot_iterations(PixelPoint(params, x, y), max_iter)]]

generate_mandelbrot(gen, params) ==
    LET max_iter == MandelbrotBudget(gen, params.max_iterations)
    IN  IF gen.use_adaptive_sampling /\ params.zoom > AdaptiveZoom * ZoomUnit
        THEN generate_mandelbrot_adaptive(params, max_iter)
        ELSE [y \in 0..(params.height - 1) |->
                [x \in 0..(params.width - 1) |->
                    mandelbrot_iterations(PixelPoint(params, x, y), max_iter)]]

generate_julia(gen, params, c) ==
    [y \in 0..(params.height - 1) |->
        [x \in 0..(params.width - 1) |->
            julia_iterations(PixelPoint(params, x, y), c, params.max_iterations)]]

generate_burning_ship(gen, params) ==
    [y \in 0..(params.height - 1) |->
        [x \in 0..(params.width - 1) |->
            burning_ship_iterations(PixelPoint(params, x, y), params.max_iterations)]]

generate_tricorn(gen, params) ==
    [y \in 0..(params.height - 1) |->
        [x \in 0..(params.width - 1) |->
            tricorn_iterations(PixelPoint(params, x, y), params.max_iterations)]]

generate_multibrot(gen, params, power) ==
    [y \in 0..(params.height - 1) |->
        [x \in 0..(params.width - 1) |->
            multibrot_iterations(PixelPoint(params, x, y), power, params.max_iterations)]]

generate_standard(gen, params) ==
    LET t == params.fractal_type
    IN  CASE t.kind = "Mandelbrot"  -> generate_mandelbrot(gen, params)
          [] t.kind = "Julia"       -> generate_julia(gen, params, t.c)
          [] t.kind = "BurningShip" -> generate_burning_ship(gen, params)
          [] t.kind = "Tricorn"     -> generate_tricorn(gen, params)
          [] t.kind = "Multibrot"   -> generate_multibrot(gen, params, t.power)
          [] t.kind = "Custom"      -> generate_mandelbrot(gen, params)

GridHeight(data) == Cardinality(DOMAIN data)
GridWidth(data, y) == Cardinality(DOMAIN data[y])

\* The sample at (sample_x, sample_y) when it lies inside data, else nothing.
SampleInside(data, sample_x, sample_y) ==
    sample_y < GridHeight(data) /\ sample_x < GridWidth(data, sample_y)

\* A downsample that keeps the top-left sample of each block instead of averaging.
downsample_fractal_nearest(data, target_width, target_height) ==
    [y \in 0..(target_height - 1) |->
        [x \in 0..(target_width - 1) |->
            IF SampleInside(data, x * 2, y * 2) THEN data[y * 2][x * 2] ELSE 0]]

downsample_fractal(data, target_width, target_height) ==
    [y \in 0..(target_height - 1) |->
        [x \in 0..(target_width - 1) |->
            LET src_x == x * 2
                src_y == y * 2
                Value(dx, dy) == IF SampleInside(data, src_x + dx, src_y + dy)
                                 THEN data[src_y + dy][src_x + dx] ELSE 0
                One(dx, dy) == IF SampleInside(data, src_x + dx, src_y + dy)
                               THEN 1 ELSE 0
                sum == Value(0, 0) + Value(1, 0) + Value(0, 1) + Value(1, 1)
                count == One(0, 0) + One(1, 0) + One(0, 1) + One(1, 1)
            IN  IF count > 0 THEN sum \div count ELSE 0]]

generate_with_super_sampling(gen, params) ==
    LET super_params == [params EXCEPT !.width = params.width * 2,
                                       !.height = params.height * 2]
        super_data == generate_standard(gen, super_params)
    IN  downsample_fractal(super_data, params.width, params.height)

generate(gen, params) ==
    IF gen.super_sampling
    THEN generate_with_super_sampling(gen, params)
    ELSE generate_standard(gen, params)

\* FractalGenerator::new
NewGenerator ==
    [use_adaptive_sampling |-> TRUE, performance_mode |-> FALSE,
     quality_mode |-> TRUE, super_sampling |-> FALSE]

\* ------------------------------------------------------------------------
\* State
\* ------------------------------------------------------------------------

\* The App's fields that hold text or wall-clock measurements (status_message,
\* total_generation_time, frame_count, last_fps_update, last_update) decide no
\* branch of the handlers below and are left out. fps is a measurement too: the
\* one handler that reads it, optimize_parameters_for_performance, takes it as
\* an input drawn from the readings update_fps can have produced.
VARIABLES
    \* App (src/src/app.rs:28-57)
    should_quit,
    mode,                   \* AppMode: "Interactive", "AutoGenerate", "EquationEditor"
    input_mode,             \* InputMode: "Normal", "Editing"
    show_help,
    fractal_generator,      \* FractalGenerator: its four flags
    renderer,               \* TerminalRenderer: its flags
    fractal_data,           \* the grid on display, see GeneratedGrid
    zoom_factor,
    center_x,
    center_y,
    max_iterations,
    current_equation,       \* String: the sequence of its characters
    current_fractal_type,
    auto_generation_phase,
    auto_target_zoom,
    auto_target_x,
    auto_target_y,
    fractal_cache,          \* HashMap<String, Vec<Vec<u32>>>: a function key -> grid
    generation_count,
    fractal_display_area,   \* Option<Rect>
    last_terminal_size,     \* Option<(u16, u16)>
    \* a caller of the library
    request,                \* the FractalParams the caller passes
    returned,               \* what the call on request returned, or NoResult
    finished_rows           \* rows the parallel iterator's workers have finished
                            \* within the call in progress, in completion order

callVars == <<request, returned, finished_rows>>
autoVars == <<auto_generation_phase, auto_target_zoom, auto_target_x, auto_target_y>>
modeVars == <<should_quit, mode, input_mode, show_help, autoVars>>
viewVars ==
    <<zoom_factor, center_x, center_y, max_iterations, current_fractal_type, current_equation>>
cacheVars == <<fractal_data, fractal_cache, generation_count>>
termVars == <<fractal_display_area, last_terminal_size>>
appVars == <<modeVars, renderer, viewVars, cacheVars, termVars>>
vars == <<fractal_generator, appVars, callVars>>

NoResult == [called |-> FALSE]
NoRequest == [fractal_type |-> [kind |-> "Mandelbrot"], width |-> 0, height |-> 0,
              zoom |-> ZoomUnit, center_x |-> 0, center_y |-> 0, max_iterations |-> 0]

\* ------------------------------------------------------------------------
\* Requests drawn for the generator
\* ------------------------------------------------------------------------

MaxWidth == 3
MaxHeight == 2

Mandelbrot == [kind |-> "Mandelbrot"]
BurningShip == [kind |-> "BurningShip"]
Tricorn == [kind |-> "Tricorn"]
\* Julia { c: Complex::new(-0.7269, 0.1889) }, the preset of F3
JuliaPreset == [kind |-> "Julia", c |-> <<-727, 189>>]
\* Multibrot { power: 3.0 }
Multibrot3 == [kind |-> "Multibrot", power |-> 3]
CustomType == [kind |-> "Custom", equation |-> "sin(z) + c"]

\* Variants whose iterated value becomes NaN: a Julia constant with a NaN part
\* and a Multibrot with a negative power.
JuliaNaN == [kind |-> "Julia", c |-> <<NaN, 0>>]
MultibrotNegative == [kind |-> "Multibrot", power |-> -2]

GenTypes ==
    {Mandelbrot, JuliaPreset, BurningShip, Tricorn, Multibrot3, CustomType,
     JuliaNaN, MultibrotNegative}

\* zoom 1.0, exactly 10.0, and 12.0
GenZooms == {ZoomUnit, 10 * ZoomUnit, 12 * ZoomUnit}
\* centers (-0.5, 0.0) and (-1.0, 0.3)
GenCenters == { <<-(CoordUnit \div 2), 0>>, <<-CoordUnit, 3 * (CoordUnit \div 10)>> }
GenIterations == {1, 30, 50}

Params(t, w, h, z, c, mi) ==
    [fractal_type |-> t, width |-> w, height |-> h, zoom |-> z,
     center_x |-> c[1], center_y |-> c[2], max_iterations |-> mi]

\* Requests whose iteration count makes the quality budget reach its cap.
CapRequests ==
    { Params(t, 2, 1, z, <<-(CoordUnit \div 2), 0>>, 400) :
        t \in GenTypes, z \in {ZoomUnit, 12 * ZoomUnit} }

GenRequests ==
    { Params(t, w, h, z, c, mi) :
        t \in GenTypes, w \in 1..MaxWidth, h \in 1..MaxHeight,
        z \in GenZooms, c \in GenCenters, mi \in GenIterations }
    \cup CapRequests

\* ------------------------------------------------------------------------
\* src/src/renderer.rs : TerminalRenderer
\* ------------------------------------------------------------------------

\* A match arm lo..=hi => (glyph, color), and the arm _ => (glyph, color).
\* Glyphs outside ASCII are written as their code points.
Arm(lo, hi, glyph, color) ==
    [wild |-> FALSE, lo |-> lo, hi |-> hi, glyph |-> glyph, color |-> color]
Wildcard(glyph, color) ==
    [wild |-> TRUE, lo |-> 0, hi |-> 0, glyph |-> glyph, color |-> color]

ArmMatches(arm, iterations) ==
    arm.wild \/ (arm.lo <= iterations /\ iterations <= arm.hi)

\* match iterations { arms }: the first arm that matches decides.
MatchArms(arms, iterations) ==
    LET first == CHOOSE i \in 1..Len(arms) :
                    /\ ArmMatches(arms[i], iterations)
                    /\ \A j \in 1..(i - 1) : ~ArmMatches(arms[j], iterations)
    IN  <<arms[first].glyph, arms[first].color>>

HighQualityArms ==
    << Arm(0, 1, " ", "Black"),
       Arm(2, 3, "U+00B7", "DarkGray"),
       Arm(4, 5, "U+2591", "DarkGray"),
       Arm(6, 8, "U+2592", "Gray"),
       Arm(9, 12, "U+2593", "LightBlue"),
       Arm(13, 16, "U+2588", "Blue"),
       Arm(17, 20, "U+2589", "Cyan"),
       Arm(21, 25, "U+258A", "LightCyan"),
       Arm(26, 30, "U+258B", "Green"),
       Arm(31, 35, "U+258C", "LightGreen"),
       Arm(36, 40, "U+258D", "Yellow"),
       Arm(41, 45, "U+258E", "LightYellow"),
       Arm(46, 50, "U+258F", "Red"),
       Arm(51, 60, "U+2595", "LightRed"),
       Arm(61, 70, "U+2594", "Magenta"),
       Arm(71, 80, "U+2581", "LightMagenta"),
       Arm(81, 90, "U+2582", "White"),
       Arm(91, 100, "U+2583", "LightBlue"),
       Arm(101, 120, "U+2584", "Blue"),
       Arm(121, 140, "U+2585", "Cyan"),
       Arm(141, 160, "U+2586", "Green"),
       Arm(161, 180, "U+2587", "Yellow"),
       Arm(181, 200, "U+2588", "Red"),
       Arm(201, 220, "U+2593", "Magenta"),
       Arm(221, 240, "U+2592", "LightMagenta"),
       Arm(241, 255, "U+2591", "White"),
       Wildcard("U+2588", "LightMagenta") >>

iterations_to_high_quality_char_and_color(iterations) ==
    MatchArms(HighQualityArms, iterations)

StandardArms ==
    << Arm(0, 2, " ", "Black"),
       Arm(3, 5, "U+2591", "DarkGray"),
       Arm(6, 10, "U+2592", "Gray"),
       Arm(11, 15, "U+2593", "White"),
       Arm(16, 20, "U+2588", "Blue"),
       Arm(21, 30, "U+2588", "Cyan"),
       Arm(31, 40, "U+2588", "LightGreen"),
       Arm(41, 50, "U+2588", "Yellow"),
       Arm(51, 60, "U+2588", "LightYellow"),
       Arm(61, 70, "U+2588", "Red"),
       Arm(71, 80, "U+2588", "LightRed"),
       Arm(81, 90, "U+2593", "Magenta"),
       Arm(91, 99, "*", "LightRed"),
       Wildcard("#", "LightMagenta") >>

iterations_to_standard_char_and_color(iterations) ==
    MatchArms(StandardArms, iterations)

\* The ascii arms with 51..=70 widened to 50..=70.
AsciiArmsOverlapping ==
    << Arm(0, 2, " ", "Black"),
       Arm(3, 5, ".", "DarkGray"),
       Arm(6, 10, ":", "Gray"),
       Arm(11, 15, ";", "White"),
       Arm(16, 20, "!", "Blue"),
       Arm(21, 30, "|", "Cyan"),
       Arm(31, 40, "$", "Green"),
       Arm(41, 50, "@", "Yellow"),
       Arm(50, 70, "&", "Red"),
       Arm(71, 90, "%", "Magenta"),
       Arm(91, 99, "*", "LightRed"),
       Wildcard("#", "LightMagenta") >>

AsciiArms ==
    << Arm(0, 2, " ", "Black"),
       Arm(3, 5, ".", "DarkGray"),
       Arm(6, 10, ":", "Gray"),
       Arm(11, 15, ";", "White"),
       Arm(16, 20, "!", "Blue"),
       Arm(21, 30, "|", "Cyan"),
       Arm(31, 40, "$", "Green"),
       Arm(41, 50, "@", "Yellow"),
       Arm(51, 70, "&", "Red"),
       Arm(71, 90, "%", "Magenta"),
       Arm(91, 99, "*", "LightRed"),
       Wildcard("#", "LightMagenta") >>

iterations_to_ascii_char_and_color(iterations) ==
    MatchArms(AsciiArms, iterations)

iterations_to_unicode_char_and_color(rend, iterations) ==
    IF rend.quality_mode
    THEN iterations_to_high_quality_char_and_color(iterations)
    ELSE iterations_to_standard_char_and_color(iterations)

iterations_to_char_and_color(rend, iterations) ==
    IF rend.use_unicode
    THEN iterations_to_unicode_char_and_color(rend, iterations)
    ELSE iterations_to_ascii_char_and_color(iterations)

\* The arms iterations_to_char_and_color matches against.
SelectedArms(rend) ==
    IF rend.use_unicode
    THEN IF rend.quality_mode THEN HighQualityArms ELSE StandardArms
    ELSE AsciiArms

\* Span::styled(content, Style::default().fg(color)) and Span::raw(content)
NoColor == "None"
Styled(content, color) == [content |-> content, fg |-> color]
Raw(content) == [content |-> content, fg |-> NoColor]

\* The span a (char, Color) pair is emitted as.
SpanOf(rend, char_and_color) ==
    IF rend.use_colors
    THEN Styled(char_and_color[1], char_and_color[2])
    ELSE Raw(char_and_color[1])

\* vec![Line::from("No fractal data")]
NoFractalData == [y \in 0..0 |-> [x \in 0..0 |-> Raw("No fractal data")]]

\* Whether render_to_text on a grid renders differentially.
UseDifferential(rend, data) ==
    /\ rend.use_fast_rendering
    /\ rend.last_rendered_data.some
    /\ GridHeight(rend.last_rendered_data.value) = GridHeight(data)
    /\ GridWidth(rend.last_rendered_data.value, 0) = GridWidth(data, 0)

\* The lines render_to_text returns.
RenderedLines(rend, data, target_width, target_height) ==
    IF GridHeight(data) = 0 THEN NoFractalData
    ELSE
    LET data_height == GridHeight(data)
        data_width == GridWidth(data, 0)
        use_differential == UseDifferential(rend, data)
    IN  [y \in 0..(Min(target_height, data_height) - 1) |->
          [x \in 0..(Min(target_width, data_width) - 1) |->
             LET iterations == data[y][x]
             IN  IF use_differential
                    /\ rend.last_rendered_data.value[y][x] = iterations
                 THEN Raw(" ")
                 ELSE SpanOf(rend, iterations_to_char_and_color(rend, iterations))]]

\* RenderedState that keeps the grid whether or not fast rendering is on.
RenderedStateAlwaysKept(rend, data) ==
    IF GridHeight(data) # 0
    THEN [rend EXCEPT !.last_rendered_data = [some |-> TRUE, value |-> data]]
    ELSE rend

\* RenderedState that never keeps the grid.
RenderedStateNotKept(rend, data) == rend

\* The renderer render_to_text leaves.
RenderedState(rend, data) ==
    IF GridHeight(data) # 0 /\ rend.use_fast_rendering
    THEN [rend EXCEPT !.last_rendered_data = [some |-> TRUE, value |-> data]]
    ELSE rend

\* BoundedLines without the centering offsets.
BoundedLinesUncentered(rend, data, start_x, start_y, display_width, display_height, target_width, target_height) ==
    IF GridHeight(data) = 0 THEN NoFractalData
    ELSE
    [target_y \in 0..(target_height - 1) |->
      [target_x \in 0..(target_width - 1) |->
         SpanOf(rend,
                IF /\ target_y < display_height
                   /\ target_x < display_width
                   /\ start_y + target_y < GridHeight(data)
                   /\ start_x + target_x < GridWidth(data, 0)
                THEN iterations_to_char_and_color(
                         rend, data[start_y + target_y][start_x + target_x])
                ELSE <<" ", "Black">>)]]

\* The lines render_to_text_with_bounds returns.
BoundedLines(rend, data, start_x, start_y, display_width, display_height, target_width, target_height) ==
    IF GridHeight(data) = 0 THEN NoFractalData
    ELSE
    LET data_height == GridHeight(data)
        data_width == GridWidth(data, 0)
        center_offset_x == IF display_width < target_width
                           THEN (target_width - display_width) \div 2 ELSE 0
        center_offset_y == IF display_height < target_height
                           THEN (target_height - display_height) \div 2 ELSE 0
    IN  [target_y \in 0..(target_height - 1) |->
          [target_x \in 0..(target_width - 1) |->
             LET fractal_x == start_x + (target_x - center_offset_x)
                 fractal_y == start_y + (target_y - center_offset_y)
                 char_and_color ==
                     IF /\ target_y >= center_offset_y
                        /\ target_y < center_offset_y + display_height
                        /\ target_x >= center_offset_x
                        /\ target_x < center_offset_x + display_width
                     THEN IF fractal_y < data_height /\ fractal_x < data_width
                          THEN iterations_to_char_and_color(
                                   rend, data[fractal_y][fractal_x])
                          ELSE <<" ", "Black">>
                     ELSE <<" ", "Black">>
             IN  SpanOf(rend, char_and_color)]]

\* ------------------------------------------------------------------------
\* src/src/app.rs : App
\* ------------------------------------------------------------------------

\* TerminalRenderer::new (src/src/renderer.rs:17-26)
NewRenderer ==
    [use_colors |-> TRUE, use_unicode |-> TRUE, use_fast_rendering |-> FALSE,
     quality_mode |-> TRUE, super_sampling |-> FALSE,
     last_rendered_data |-> [some |-> FALSE]]

\* Option::None for fractal_display_area and last_terminal_size
None == [some |-> FALSE]
Some(v) == [some |-> TRUE, value |-> v]

\* The Vec<Vec<u32>> that generate(gen, params) returns, held by the arguments of
\* the call: its cells are Cells(data).  Vec::new() is EmptyData.
GeneratedGrid(gen, params) ==
    [empty |-> FALSE, width |-> params.width, height |-> params.height,
     params |-> params, gen |-> gen]
EmptyData ==
    [empty |-> TRUE, width |-> 0, height |-> 0, params |-> NoRequest, gen |-> NewGenerator]
Cells(data) == IF data.empty THEN <<>> ELSE generate(data.gen, data.params)

\* The texts the handlers assign to current_equation, as character sequences.
\* "z^2 + c"
MandelbrotText ==
    <<"z", "^", "2", " ", "+", " ", "c">>
\* "Burning Ship"
BurningShipText ==
    <<"B", "u", "r", "n", "i", "n", "g", " ", "S", "h", "i", "p">>
\* "Julia: c = -0.7269 + 0.1889i"
JuliaPresetText ==
    <<"J", "u", "l", "i", "a", ":", " ", "c", " ", "=", " ", "-", "0", ".", "7", "2", "6", "9", " ", "+", " ", "0", ".", "1", "8", "8", "9", "i">>
\* "Tricorn"
TricornText ==
    <<"T", "r", "i", "c", "o", "r", "n">>
\* "Julia Set"
JuliaSetText ==
    <<"J", "u", "l", "i", "a", " ", "S", "e", "t">>
\* "Multibrot z^3"
MultibrotCubeText ==
    <<"M", "u", "l", "t", "i", "b", "r", "o", "t", " ", "z", "^", "3">>

\* ------------------------------------------------------------------------
\* Text of the equation editor (src/src/app.rs:739-817). A String is the
\* sequence of its characters.
\* ------------------------------------------------------------------------

\* char::to_lowercase on the letters A..Z
LowerCase ==
    ("A" :> "a") @@ ("B" :> "b") @@ ("C" :> "c") @@ ("D" :> "d") @@ ("E" :> "e") @@ ("F" :> "f") @@
    ("G" :> "g") @@ ("H" :> "h") @@ ("I" :> "i") @@ ("J" :> "j") @@ ("K" :> "k") @@ ("L" :> "l") @@
    ("M" :> "m") @@ ("N" :> "n") @@ ("O" :> "o") @@ ("P" :> "p") @@ ("Q" :> "q") @@ ("R" :> "r") @@
    ("S" :> "s") @@ ("T" :> "t") @@ ("U" :> "u") @@ ("V" :> "v") @@ ("W" :> "w") @@ ("X" :> "x") @@
    ("Y" :> "y") @@ ("Z" :> "z")
ToLowerChar(c) == IF c \in DOMAIN LowerCase THEN LowerCase[c] ELSE c
to_lowercase(text) == [i \in 1..Len(text) |-> ToLowerChar(text[i])]

\* str::trim, for the one whitespace character the editor's texts hold
NonSpaces(text) == {i \in 1..Len(text) : text[i] # " "}
trim(text) ==
    IF NonSpaces(text) = {} THEN <<>>
    ELSE SubSeq(text,
                CHOOSE i \in NonSpaces(text) : \A j \in NonSpaces(text) : i <= j,
                CHOOSE i \in NonSpaces(text) : \A j \in NonSpaces(text) : i >= j)

starts_with(text, prefix) ==
    Len(text) >= Len(prefix) /\ SubSeq(text, 1, Len(prefix)) = prefix
ends_with(text, suffix) ==
    Len(text) >= Len(suffix)
        /\ SubSeq(text, Len(text) - Len(suffix) + 1, Len(text)) = suffix

DigitValue == ("0" :> 0) @@ ("1" :> 1) @@ ("2" :> 2) @@ ("3" :> 3) @@ ("4" :> 4) @@ ("5" :> 5) @@ ("6" :> 6) @@ ("7" :> 7) @@ ("8" :> 8) @@ ("9" :> 9)
RECURSIVE DecimalValue(_)
DecimalValue(digits) ==
    IF digits = <<>> THEN 0
    ELSE 10 * DecimalValue(SubSeq(digits, 1, Len(digits) - 1))
            + DigitValue[digits[Len(digits)]]

\* str::parse::<f64> on a text of the characters the editor's texts hold: an
\* optional sign and one or more decimal digits give the number, any other
\* text of these characters gives Err (here None).
parse_f64(text) ==
    LET signed == text # <<>> /\ text[1] \in {"+", "-"}
        digits == IF signed THEN SubSeq(text, 2, Len(text)) ELSE text
    IN  IF digits # <<>> /\ \A i \in 1..Len(digits) : digits[i] \in DOMAIN DigitValue
        THEN Some(IF signed /\ text[1] = "-"
                  THEN -DecimalValue(digits) ELSE DecimalValue(digits))
        ELSE None

\* format!("{}", x) of an f64 with an integer value
RECURSIVE DecimalDigits(_)
DecimalDigits(n) ==
    LET last == CHOOSE c \in DOMAIN DigitValue : DigitValue[c] = n % 10
    IN  IF n < 10 THEN <<last>> ELSE Append(DecimalDigits(n \div 10), last)
format_f64(x) == IF x < 0 THEN <<"-">> \o DecimalDigits(-x) ELSE DecimalDigits(x)

parse_power_equation(equation) ==
    LET plus_c == <<"+", "c">>
        plus_space_c == <<"+", " ", "c">>
        z_caret == <<"z", "^">>
        first == IF starts_with(equation, z_caret) /\ ends_with(equation, plus_c)
                 THEN parse_f64(trim(SubSeq(equation, 3, Len(equation) - 2)))
                 ELSE None
        second == IF starts_with(equation, z_caret) /\ ends_with(equation, plus_space_c)
                  THEN parse_f64(trim(SubSeq(equation, 3, Len(equation) - 3)))
                  ELSE None
    IN  IF first.some THEN first ELSE second

\* The positions of ',' in text, for inner.split(',')
Commas(text) == {i \in 1..Len(text) : text[i] = ","}

parse_julia_equation(equation) ==
    IF starts_with(equation, <<"j", "u", "l", "i", "a", "(">>) /\ ends_with(equation, <<")">>)
    THEN LET inner == SubSeq(equation, 7, Len(equation) - 1)
         IN  IF Cardinality(Commas(inner)) = 1
             THEN LET at == CHOOSE i \in Commas(inner) : TRUE
                      real == parse_f64(trim(SubSeq(inner, 1, at - 1)))
                      imag == parse_f64(trim(SubSeq(inner, at + 1, Len(inner))))
                  IN  IF real.some /\ imag.some
                      THEN Some(<<real.value, imag.value>>)
                      ELSE None
             ELSE None
    ELSE None

\* validate_and_apply_equation as a function of current_equation: whether it
\* returns true, and the fractal type and equation text it leaves.
Rejected(t, text) == [ok |-> FALSE, fractal_type |-> t, current_equation |-> text]
Applied(t, text) == [ok |-> TRUE, fractal_type |-> t, current_equation |-> text]

\* validate_and_apply_equation that resets the type and the text when it
\* returns false.
validate_and_apply_equation_resetting(t, text) ==
    LET equation == to_lowercase(trim(text))
        power == parse_power_equation(equation)
        julia == parse_julia_equation(equation)
    IN  IF equation = <<>> THEN Rejected(Mandelbrot, MandelbrotText)
        ELSE IF equation \in {<<"z", "^", "2", "+", "c">>, <<"z", "^", "2", " ", "+", " ", "c">>,
                              <<"m", "a", "n", "d", "e", "l", "b", "r", "o", "t">>}
        THEN Applied(Mandelbrot, MandelbrotText)
        ELSE IF equation \in {<<"b", "u", "r", "n", "i", "n", "g", " ", "s", "h", "i", "p">>,
                              <<"b", "u", "r", "n", "i", "n", "g", "s", "h", "i", "p">>}
        THEN Applied(BurningShip, BurningShipText)
        ELSE IF equation = <<"t", "r", "i", "c", "o", "r", "n">>
        THEN Applied(Tricorn, TricornText)
        ELSE IF power.some /\ power.value >= 2 /\ power.value <= 10
        THEN Applied([kind |-> "Multibrot", power |-> power.value],
                     <<"z", "^">> \o format_f64(power.value) \o <<" ", "+", " ", "c">>)
        ELSE IF julia.some
        THEN Applied([kind |-> "Julia",
                      c |-> <<julia.value[1] * Scale, julia.value[2] * Scale>>],
                     <<"J", "u", "l", "i", "a", ":", " ", "c", " ", "=", " ">> \o format_f64(julia.value[1])
                        \o <<" ", "+", " ">> \o format_f64(julia.value[2]) \o <<"i">>)
        ELSE Rejected(Mandelbrot, MandelbrotText)

validate_and_apply_equation(t, text) ==
    LET equation == to_lowercase(trim(text))
        power == parse_power_equation(equation)
        julia == parse_julia_equation(equation)
    IN  IF equation = <<>> THEN Rejected(t, text)
        ELSE IF equation \in {<<"z", "^", "2", "+", "c">>, <<"z", "^", "2", " ", "+", " ", "c">>,
                              <<"m", "a", "n", "d", "e", "l", "b", "r", "o", "t">>}
        THEN Applied(Mandelbrot, MandelbrotText)
        ELSE IF equation \in {<<"b", "u", "r", "n", "i", "n", "g", " ", "s", "h", "i", "p">>,
                              <<"b", "u", "r", "n", "i", "n", "g", "s", "h", "i", "p">>}
        THEN Applied(BurningShip, BurningShipText)
        ELSE IF equation = <<"t", "r", "i", "c", "o", "r", "n">>
        THEN Applied(Tricorn, TricornText)
        ELSE IF power.some /\ power.value >= 2 /\ power.value <= 10
        THEN Applied([kind |-> "Multibrot", power |-> power.value],
                     <<"z", "^">> \o format_f64(power.value) \o <<" ", "+", " ", "c">>)
        ELSE IF julia.some
        THEN Applied([kind |-> "Julia",
                      c |-> <<julia.value[1] * Scale, julia.value[2] * Scale>>],
                     <<"J", "u", "l", "i", "a", ":", " ", "c", " ", "=", " ">> \o format_f64(julia.value[1])
                        \o <<" ", "+", " ">> \o format_f64(julia.value[2]) \o <<"i">>)
        ELSE Rejected(t, text)

InitialIterations == 256

\* App::new
AppNew ==
    /\ should_quit = FALSE
    /\ mode = "Interactive"
    /\ input_mode = "Normal"
    /\ show_help = FALSE
    /\ renderer = NewRenderer
    /\ fractal_data = EmptyData
    /\ zoom_factor = ZoomUnit
    /\ center_x = -(CoordUnit \div 2)
    /\ center_y = 0
    /\ max_iterations = InitialIterations
    /\ current_equation = MandelbrotText
    /\ current_fractal_type = Mandelbrot
    /\ auto_generation_phase = 0
    /\ auto_target_zoom = ZoomUnit
    /\ auto_target_x = -(CoordUnit \div 2)
    /\ auto_target_y = 0
    /\ fractal_cache = <<>>
    /\ generation_count = 0
    /\ fractal_display_area = None
    /\ last_terminal_size = None

\* format!("{:.6}", x) and format!("{:.3}", x): the value is cut to one digit
\* fewer than it is stored with, rounding half to even, and the sign of a negative
\* value is printed even when every printed digit is 0 ("-0.000000").
RoundLastDigit(m) ==
    LET q == m \div 10
        r == m % 10
    IN  IF r > 5 \/ (r = 5 /\ q % 2 = 1) THEN q + 1 ELSE q
FormatFixed(v) == [negative |-> v < 0, digits |-> RoundLastDigit(Abs(v))]

\* format!("{:?}_{}_{}_{:.6}_{:.6}_{:.3}_{}", ...): the string as its fields
create_cache_key(params) ==
    << params.fractal_type, params.width, params.height,
       FormatFixed(params.center_x), FormatFixed(params.center_y),
       FormatFixed(params.zoom), params.max_iterations >>

DefaultWidth == 80
DefaultHeight == 24
MinDisplayWidth == 20
MinDisplayHeight == 10
InsertCeiling == 50
HardCapacity == 100

\* u16::saturating_sub
SaturatingSub(a, b) == IF a >= b THEN a - b ELSE 0

\* DisplaySize without the minimum display size.
DisplaySizeUnclamped(area) ==
    IF area.some
    THEN << SaturatingSub(area.value.width, 2), SaturatingSub(area.value.height, 2) >>
    ELSE <<DefaultWidth, DefaultHeight>>

\* The (width, height) regenerate_fractal_with_size(None) generates at.
DisplaySize(area) ==
    IF area.some
    THEN << Max(SaturatingSub(area.value.width, 2), MinDisplayWidth),
            Max(SaturatingSub(area.value.height, 2), MinDisplayHeight) >>
    ELSE <<DefaultWidth, DefaultHeight>>

CacheLen(cache) == Cardinality(DOMAIN cache)
CacheInsert(cache, key, data) ==
    [k \in DOMAIN cache \cup {key} |-> IF k = key THEN data ELSE cache[k]]

\* CacheAfterMiss that stores up to the hard capacity.
CacheAfterMissToCapacity(cache, key, data) ==
    IF CacheLen(cache) < HardCapacity THEN CacheInsert(cache, key, data) ELSE <<>>

\* CacheAfterMiss that never stores.
CacheAfterMissNotStored(cache, key, data) == cache

\* The cache after a miss on key produced data.
CacheAfterMiss(cache, key, data) ==
    IF CacheLen(cache) < InsertCeiling THEN CacheInsert(cache, key, data)
    ELSE IF CacheLen(cache) >= HardCapacity THEN <<>>
    ELSE cache

\* regenerate_fractal_with_size(None) as a function of the fields it reads: the
\* new fractal_data, fractal_cache and generation_count.
Regenerated(gen, params, cache, count) ==
    LET cache_key == create_cache_key(params)
    IN  IF cache_key \in DOMAIN cache
        THEN [fractal_data |-> cache[cache_key], fractal_cache |-> cache,
              generation_count |-> count]
        ELSE LET data == GeneratedGrid(gen, params)
             IN  [fractal_data |-> data,
                  fractal_cache |-> CacheAfterMiss(cache, cache_key, data),
                  generation_count |-> count + 1]

\* The FractalParams regenerate_fractal builds from the App's fields.
AppParams(t, zoom, cx, cy, mi, area) ==
    Params(t, DisplaySize(area)[1], DisplaySize(area)[2], zoom, <<cx, cy>>, mi)

\* regenerate_fractal, called at the end of a handler: gen, the view and the area
\* are the handler's new values, cache is the cache the handler left (cleared or
\* not).
regenerate_fractal(gen, t, zoom, cx, cy, mi, area, cache) ==
    LET r == Regenerated(gen, AppParams(t, zoom, cx, cy, mi, area), cache,
                         generation_count)
    IN  /\ fractal_data' = r.fractal_data
        /\ fractal_cache' = r.fractal_cache
        /\ generation_count' = r.generation_count

\* handle_key_event dispatches on input_mode; the run loop stops at should_quit.
\* cap bounds generation_count.
NormalKey(cap) ==
    /\ ~should_quit
    /\ input_mode = "Normal"
    /\ generation_count < cap

\* A handler that changes only the view and then regenerates.
ViewKey(t, equation, zoom, cx, cy, mi) ==
    /\ current_fractal_type' = t
    /\ current_equation' = equation
    /\ zoom_factor' = zoom
    /\ center_x' = cx
    /\ center_y' = cy
    /\ max_iterations' = mi
    /\ regenerate_fractal(fractal_generator, t, zoom, cx, cy, mi,
                          fractal_display_area, fractal_cache)
    /\ UNCHANGED <<fractal_generator, renderer, modeVars, termVars, callVars>>

\* 0.1 / zoom_factor, in coordinate units
PanStep(zoom) ==
    LET a == (CoordUnit \div 10) * (ZoomUnit \div 10)
    IN  (a \div zoom) * 10 + ((a % zoom) * 10) \div zoom

\* 'r' and ' '
KeyRegenerate(cap) ==
    /\ NormalKey(cap)
    /\ ViewKey(current_fractal_type, current_equation, zoom_factor, center_x, center_y, max_iterations)

\* '+' and '=' : zoom_in
KeyZoomIn(cap) ==
    /\ NormalKey(cap)
    /\ ViewKey(current_fractal_type, current_equation, (zoom_factor * 3) \div 2, center_x, center_y,
               max_iterations)

\* '-' and '_' : zoom_out
KeyZoomOut(cap) ==
    /\ NormalKey(cap)
    /\ ViewKey(current_fractal_type, current_equation, (zoom_factor * 2) \div 3, center_x, center_y,
               max_iterations)

\* Up, Down : pan_up, pan_down
KeyPanUp(cap) ==
    /\ NormalKey(cap)
    /\ ViewKey(current_fractal_type, current_equation, zoom_factor, center_x,
               center_y - PanStep(zoom_factor), max_iterations)

KeyPanDown(cap) ==
    /\ NormalKey(cap)
    /\ ViewKey(current_fractal_type, current_equation, zoom_factor, center_x,
               center_y + PanStep(zoom_factor), max_iterations)

\* Left, Right : pan_left, pan_right
KeyPanLeft(cap) ==
    /\ NormalKey(cap)
    /\ ViewKey(current_fractal_type, current_equation, zoom_factor, center_x - PanStep(zoom_factor),
               center_y, max_iterations)

KeyPanRight(cap) ==
    /\ NormalKey(cap)
    /\ ViewKey(current_fractal_type, current_equation, zoom_factor, center_x + PanStep(zoom_factor),
               center_y, max_iterations)

MaxIterationsCap == 1000
MinIterationsFloor == 10
IterationStepSize == 10

\* The max_iterations that increase_iterations and decrease_iterations leave.
increase_iterations(mi) == Min(mi + IterationStepSize, MaxIterationsCap)
decrease_iterations(mi) == Max(SaturatingSub(mi, IterationStepSize), MinIterationsFloor)

\* 'i' : increase_iterations
KeyIncreaseIterations(cap) ==
    /\ NormalKey(cap)
    /\ ViewKey(current_fractal_type, current_equation, zoom_factor, center_x, center_y,
               increase_iterations(max_iterations))

\* 'd' : decrease_iterations
KeyDecreaseIterations(cap) ==
    /\ NormalKey(cap)
    /\ ViewKey(current_fractal_type, current_equation, zoom_factor, center_x, center_y,
               decrease_iterations(max_iterations))

\* 'c' : reset to center
KeyResetCenter(cap) ==
    /\ NormalKey(cap)
    /\ ViewKey(current_fractal_type, current_equation, ZoomUnit, -(CoordUnit \div 2), 0, max_iterations)

\* F2, F3, F4 : the presets
KeyF2(cap) ==
    /\ NormalKey(cap)
    /\ ViewKey(BurningShip, BurningShipText, zoom_factor, center_x, center_y, max_iterations)

KeyF3(cap) ==
    /\ NormalKey(cap)
    /\ ViewKey(JuliaPreset, JuliaPresetText, zoom_factor, center_x, center_y, max_iterations)

KeyF4(cap) ==
    /\ NormalKey(cap)
    /\ ViewKey(Tricorn, TricornText, zoom_factor, center_x, center_y, max_iterations)

\* ToggleKey without cache.clear().
ToggleKeyKeepCache(gen, rend) ==
    /\ fractal_generator' = gen
    /\ renderer' = rend
    /\ regenerate_fractal(gen, current_fractal_type, zoom_factor, center_x, center_y,
                          max_iterations, fractal_display_area, fractal_cache)
    /\ UNCHANGED <<modeVars, viewVars, termVars, callVars>>

\* A handler that sets the generator's (and renderer's) flags, clears the cache
\* and regenerates.
ToggleKey(gen, rend) ==
    /\ fractal_generator' = gen
    /\ renderer' = rend
    /\ regenerate_fractal(gen, current_fractal_type, zoom_factor, center_x, center_y,
                          max_iterations, fractal_display_area, <<>>)
    /\ UNCHANGED <<modeVars, viewVars, termVars, callVars>>

\* F5 : toggle performance mode
KeyF5(cap) ==
    /\ NormalKey(cap)
    /\ ToggleKey([fractal_generator EXCEPT
                    !.performance_mode = ~fractal_generator.performance_mode],
                 renderer)

\* F6 : toggle adaptive sampling
KeyF6(cap) ==
    /\ NormalKey(cap)
    /\ ToggleKey([fractal_generator EXCEPT
                    !.use_adaptive_sampling = ~fractal_generator.use_adaptive_sampling],
                 renderer)

\* F7 : clear the cache
KeyF7 ==
    /\ ~should_quit
    /\ input_mode = "Normal"
    /\ fractal_cache' = <<>>
    /\ UNCHANGED <<fractal_generator, renderer, modeVars, viewVars, fractal_data,
                   generation_count, termVars, callVars>>

\* F9 : toggle quality mode
KeyF9(cap) ==
    /\ NormalKey(cap)
    /\ LET quality_mode == ~fractal_generator.quality_mode
       IN  ToggleKey([fractal_generator EXCEPT !.quality_mode = quality_mode],
                     [renderer EXCEPT !.quality_mode = quality_mode])

\* F10 : toggle super-sampling
KeyF10(cap) ==
    /\ NormalKey(cap)
    /\ LET super_sampling == ~fractal_generator.super_sampling
       IN  ToggleKey([fractal_generator EXCEPT !.super_sampling = super_sampling],
                     [renderer EXCEPT !.super_sampling = super_sampling])

\* The terminal sizes a resize event reports, and the display areas a draw finds.
TerminalSizes == { <<120, 40>>, <<100, 30>> }
Rect(w, h) == [width |-> w, height |-> h]
DisplayAreas == { Rect(80, 30), Rect(10, 5) }

\* Resized that keeps the cache.
ResizedKeepCache(last, area, cache, width, height) ==
    IF last # Some(<<width, height>>)
    THEN [last_terminal_size |-> Some(<<width, height>>),
          fractal_display_area |-> None,
          fractal_cache |-> cache]
    ELSE [last_terminal_size |-> last,
          fractal_display_area |-> area,
          fractal_cache |-> cache]

\* handle_resize_event(width, height) as a function of the fields it reads: the
\* new last_terminal_size, fractal_display_area and fractal_cache.
Resized(last, area, cache, width, height) ==
    IF last # Some(<<width, height>>)
    THEN [last_terminal_size |-> Some(<<width, height>>),
          fractal_display_area |-> None,
          fractal_cache |-> <<>>]
    ELSE [last_terminal_size |-> last,
          fractal_display_area |-> area,
          fractal_cache |-> cache]

handle_resize_event(width, height) ==
    /\ ~should_quit
    /\ LET r == Resized(last_terminal_size, fractal_display_area, fractal_cache,
                        width, height)
       IN  /\ last_terminal_size' = r.last_terminal_size
           /\ fractal_display_area' = r.fractal_display_area
           /\ fractal_cache' = r.fractal_cache
    /\ UNCHANGED <<fractal_generator, renderer, modeVars, viewVars, fractal_data,
                   generation_count, callVars>>

\* render_fractal_display(area), the draw of the fractal pane: it records a
\* changed area and regenerates when the area changed or there is no grid yet.
render_fractal_display(area, cap) ==
    /\ ~should_quit
    /\ generation_count < cap
    /\ LET area_changed ==
              \/ ~fractal_display_area.some
              \/ fractal_display_area.value.width # area.width
              \/ fractal_display_area.value.height # area.height
           new_area == IF area_changed THEN Some(area) ELSE fractal_display_area
       IN  /\ fractal_display_area' = new_area
           /\ IF fractal_data.empty \/ area_changed
              THEN regenerate_fractal(fractal_generator, current_fractal_type,
                                      zoom_factor, center_x, center_y, max_iterations,
                                      new_area, fractal_cache)
              ELSE UNCHANGED cacheVars
    /\ UNCHANGED <<fractal_generator, renderer, modeVars, viewVars,
                   last_terminal_size, callVars>>

\* ------------------------------------------------------------------------
\* Modes and the equation editor (src/src/app.rs:157-175, 280-307)
\* ------------------------------------------------------------------------

\* 'q' and Esc in normal mode
KeyQuit ==
    /\ ~should_quit
    /\ input_mode = "Normal"
    /\ should_quit' = TRUE
    /\ UNCHANGED <<mode, input_mode, show_help, autoVars, fractal_generator, renderer,
                   viewVars, cacheVars, termVars, callVars>>

\* 'h' and F1
KeyHelp ==
    /\ ~should_quit
    /\ input_mode = "Normal"
    /\ show_help' = ~show_help
    /\ UNCHANGED <<should_quit, mode, input_mode, autoVars, fractal_generator, renderer,
                   viewVars, cacheVars, termVars, callVars>>

\* '1'
Key1 ==
    /\ ~should_quit
    /\ input_mode = "Normal"
    /\ mode' = "Interactive"
    /\ UNCHANGED <<should_quit, input_mode, show_help, autoVars, fractal_generator,
                   renderer, viewVars, cacheVars, termVars, callVars>>

\* '2'
Key2 ==
    /\ ~should_quit
    /\ input_mode = "Normal"
    /\ mode' = "AutoGenerate"
    /\ auto_generation_phase' = 0
    /\ UNCHANGED <<should_quit, input_mode, show_help, auto_target_zoom, auto_target_x,
                   auto_target_y, fractal_generator, renderer, viewVars, cacheVars,
                   termVars, callVars>>

\* '3'
Key3 ==
    /\ ~should_quit
    /\ input_mode = "Normal"
    /\ mode' = "EquationEditor"
    /\ input_mode' = "Editing"
    /\ UNCHANGED <<should_quit, show_help, autoVars, fractal_generator, renderer,
                   viewVars, cacheVars, termVars, callVars>>

EditingKey ==
    /\ ~should_quit
    /\ input_mode = "Editing"

\* handle_editing_key_event(Enter) as a function of the fields it reads: the
\* fields it can write, after it.
EnterPressed ==
    LET v == validate_and_apply_equation(current_fractal_type, current_equation)
        r == Regenerated(fractal_generator,
                         AppParams(v.fractal_type, zoom_factor, center_x, center_y,
                                   max_iterations, fractal_display_area),
                         fractal_cache, generation_count)
    IN  [input_mode |-> IF v.ok THEN "Normal" ELSE input_mode,
         mode |-> IF v.ok THEN "Interactive" ELSE mode,
         current_fractal_type |-> v.fractal_type,
         current_equation |-> v.current_equation,
         fractal_data |-> IF v.ok THEN r.fractal_data ELSE fractal_data,
         fractal_cache |-> IF v.ok THEN r.fractal_cache ELSE fractal_cache,
         generation_count |-> IF v.ok THEN r.generation_count ELSE generation_count]

\* Enter in the editor
EditEnter ==
    /\ EditingKey
    /\ input_mode' = EnterPressed.input_mode
    /\ mode' = EnterPressed.mode
    /\ current_fractal_type' = EnterPressed.current_fractal_type
    /\ current_equation' = EnterPressed.current_equation
    /\ fractal_data' = EnterPressed.fractal_data
    /\ fractal_cache' = EnterPressed.fractal_cache
    /\ generation_count' = EnterPressed.generation_count
    /\ UNCHANGED <<should_quit, show_help, autoVars, fractal_generator, renderer,
                   zoom_factor, center_x, center_y, max_iterations, termVars, callVars>>

\* EditEsc that leaves the mode as it is.
EditEscKeepMode ==
    /\ EditingKey
    /\ input_mode' = "Normal"
    /\ UNCHANGED <<should_quit, mode, show_help, autoVars, fractal_generator, renderer,
                   viewVars, cacheVars, termVars, callVars>>

\* Esc in the editor
EditEsc ==
    /\ EditingKey
    /\ input_mode' = "Normal"
    /\ mode' = "Interactive"
    /\ UNCHANGED <<should_quit, show_help, autoVars, fractal_generator, renderer,
                   viewVars, cacheVars, termVars, callVars>>

\* Backspace in the editor: String::pop
EditBackspace ==
    /\ EditingKey
    /\ current_equation' = SubSeq(current_equation, 1, Len(current_equation) - 1)
    /\ UNCHANGED <<modeVars, fractal_generator, renderer, zoom_factor, center_x,
                   center_y, max_iterations, current_fractal_type, cacheVars, termVars,
                   callVars>>

EquationLimit == 50

\* A character key in the editor
EditChar(c) ==
    /\ EditingKey
    /\ current_equation' = IF Len(current_equation) < EquationLimit
                           THEN Append(current_equation, c)
                           ELSE current_equation
    /\ UNCHANGED <<modeVars, fractal_generator, renderer, zoom_factor, center_x,
                   center_y, max_iterations, current_fractal_type, cacheVars, termVars,
                   callVars>>

\* ------------------------------------------------------------------------
\* update: auto-generation and performance tuning
\* (src/src/app.rs:309-325, 440-522, 843-856)
\* ------------------------------------------------------------------------

\* interesting_points, in coordinate units
InterestingPoints ==
    << <<-7269000, 1889000>>, <<-8000000, 1560000>>, <<-7452900, 1130700>>,
       <<-1000000, 6510000>>, <<-7500000, 0>> >>

\* rng.gen_range(0..interesting_points.len()): the model draws the first and the
\* last index.
PointDraws == {1, Len(InterestingPoints)}

\* rng.gen::<f64>(), a value of [0, 1) in coordinate units. The draws move only
\* the centre the ticks aim at; the model draws the middle of the range.
RngDraws == { CoordUnit \div 2 }

\* (r - 0.5) * 0.3 and (r - 0.5) * 0.001
WideOffset(r) == ((r - CoordUnit \div 2) * 3) \div 10
SmallOffset(r) == (r - CoordUnit \div 2) \div 1000

\* current += (target - current) * lerp_factor, with lerp_factor 0.05
Lerp(current, target) == current + ((target - current) * 5) \div 100

ExplorePhaseEnd == 200
ZoomPhaseEnd == 400
DeepPhaseEnd == 600
AutoIterationsBase == 100
AutoIterationsCap == 500

\* The phase-3 cycle of fractal types, with the equation text of each.
NextAutoType(t) ==
    CASE t.kind = "Mandelbrot"  -> [fractal_type |-> BurningShip, equation |-> BurningShipText]
      [] t.kind = "BurningShip" -> [fractal_type |-> JuliaPreset, equation |-> JuliaSetText]
      [] t.kind = "Julia"       -> [fractal_type |-> Tricorn, equation |-> TricornText]
      [] t.kind = "Tricorn"     -> [fractal_type |-> Multibrot3, equation |-> MultibrotCubeText]
      [] OTHER                  -> [fractal_type |-> Mandelbrot, equation |-> MandelbrotText]

\* The targets auto_update_parameters aims at in phases 0 to 2: point is the
\* index drawn at phase 201, rx and ry are the two draws of the tick.
AutoTargets(phase, point, rx, ry) ==
    IF phase <= ExplorePhaseEnd
    THEN [x |-> -(CoordUnit \div 2) + WideOffset(rx),
          y |-> WideOffset(ry),
          zoom |-> ZoomUnit + (phase * ZoomUnit) \div 50]
    ELSE IF phase <= ZoomPhaseEnd
    THEN [x |-> IF phase = ExplorePhaseEnd + 1
                THEN InterestingPoints[point][1] ELSE auto_target_x,
          y |-> IF phase = ExplorePhaseEnd + 1
                THEN InterestingPoints[point][2] ELSE auto_target_y,
          zoom |-> 5 * ZoomUnit + ((phase - ExplorePhaseEnd) * ZoomUnit) \div 20]
    ELSE [x |-> auto_target_x + SmallOffset(rx),
          y |-> auto_target_y + SmallOffset(ry),
          zoom |-> 15 * ZoomUnit + ((phase - ZoomPhaseEnd) * ZoomUnit) \div 10]

\* A u32, or an f64 past the integers of the model, as <<high, low>>: the value
\* is high * 2^16 + low, with low below 2^16.
Wide(n) == <<n \div 2 ^ 16, n % 2 ^ 16>>
WideTimes(w, k) == <<w[1] * k + (w[2] * k) \div 2 ^ 16, (w[2] * k) % 2 ^ 16>>
WideDiv(w, k) == <<w[1] \div k, ((w[1] % k) * 2 ^ 16 + w[2]) \div k>>
WideMinus(a, b) ==
    IF a[2] >= b[2] THEN <<a[1] - b[1], a[2] - b[2]>>
    ELSE <<a[1] - b[1] - 1, a[2] + 2 ^ 16 - b[2]>>
WidePlus(a, b) == <<a[1] + b[1] + (a[2] + b[2]) \div 2 ^ 16, (a[2] + b[2]) % 2 ^ 16>>
WideAbove(a, b) == a[1] > b[1] \/ (a[1] = b[1] /\ a[2] > b[2])

\* 100 + doubled in u32, doubled being (zoom_factor * 2.0) as u32: whether the sum
\* overflows, and the sum modulo 2^32.
AutoSum(doubled) ==
    LET low == doubled[2] + AutoIterationsBase
        high == doubled[1] + low \div 2 ^ 16
    IN  [overflows |-> high >= 2 ^ 16, value |-> <<high % 2 ^ 16, low % 2 ^ 16>>]

\* u32::min(cap) of a sum
CappedAt(sum, cap) == IF sum[1] = 0 /\ sum[2] <= cap THEN sum[2] ELSE cap

\* max_iterations after the interpolation of a tick left the zoom at zoom. The
\* zooms a variable of the model holds are far below the 2^31 at which the sum
\* overflows.
AutoIterations(mi, zoom) ==
    IF zoom > 10 * ZoomUnit
    THEN CappedAt(AutoSum(Wide((zoom * 2) \div ZoomUnit)).value, AutoIterationsCap)
    ELSE mi

\* auto_update_parameters that does not advance the fractal type when it resets.
auto_update_parameters_same_type(point, rx, ry) ==
    IF auto_generation_phase <= DeepPhaseEnd
    THEN LET target == AutoTargets(auto_generation_phase, point, rx, ry)
             zoom == Lerp(zoom_factor, target.zoom)
         IN  [auto_generation_phase |-> auto_generation_phase + 1,
              auto_target_x |-> target.x,
              auto_target_y |-> target.y,
              auto_target_zoom |-> target.zoom,
              center_x |-> Lerp(center_x, target.x),
              center_y |-> Lerp(center_y, target.y),
              zoom_factor |-> zoom,
              max_iterations |-> AutoIterations(max_iterations, zoom),
              current_fractal_type |-> current_fractal_type,
              current_equation |-> current_equation]
    ELSE [auto_generation_phase |-> 0,
          auto_target_x |-> -(CoordUnit \div 2),
          auto_target_y |-> 0,
          auto_target_zoom |-> ZoomUnit,
          center_x |-> center_x,
          center_y |-> center_y,
          zoom_factor |-> zoom_factor,
          max_iterations |-> AutoIterationsBase,
          current_fractal_type |-> current_fractal_type,
          current_equation |-> current_equation]

\* auto_update_parameters as a function of the fields it reads: the fields it
\* can write, after it.
auto_update_parameters(point, rx, ry) ==
    IF auto_generation_phase <= DeepPhaseEnd
    THEN LET target == AutoTargets(auto_generation_phase, point, rx, ry)
             zoom == Lerp(zoom_factor, target.zoom)
         IN  [auto_generation_phase |-> auto_generation_phase + 1,
              auto_target_x |-> target.x,
              auto_target_y |-> target.y,
              auto_target_zoom |-> target.zoom,
              center_x |-> Lerp(center_x, target.x),
              center_y |-> Lerp(center_y, target.y),
              zoom_factor |-> zoom,
              max_iterations |-> AutoIterations(max_iterations, zoom),
              current_fractal_type |-> current_fractal_type,
              current_equation |-> current_equation]
    ELSE [auto_generation_phase |-> 0,
          auto_target_x |-> -(CoordUnit \div 2),
          auto_target_y |-> 0,
          auto_target_zoom |-> ZoomUnit,
          center_x |-> center_x,
          center_y |-> center_y,
          zoom_factor |-> zoom_factor,
          max_iterations |-> AutoIterationsBase,
          current_fractal_type |-> NextAutoType(current_fractal_type).fractal_type,
          current_equation |-> NextAutoType(current_fractal_type).equation]

\* update in AutoGenerate mode, once the timer has run out: the tick and the
\* regeneration after it. generation_count is counted up to cap; with forever
\* the ticks go on at cap, without it they stop there.
AutoTick(point, rx, ry, cap, forever) ==
    /\ ~should_quit
    /\ mode = "AutoGenerate"
    /\ forever \/ generation_count < cap
    /\ LET a == auto_update_parameters(point, rx, ry)
           r == Regenerated(fractal_generator,
                            AppParams(a.current_fractal_type, a.zoom_factor, a.center_x,
                                      a.center_y, a.max_iterations, fractal_display_area),
                            fractal_cache, generation_count)
       IN  /\ auto_generation_phase' = a.auto_generation_phase
           /\ auto_target_x' = a.auto_target_x
           /\ auto_target_y' = a.auto_target_y
           /\ auto_target_zoom' = a.auto_target_zoom
           /\ center_x' = a.center_x
           /\ center_y' = a.center_y
           /\ zoom_factor' = a.zoom_factor
           /\ max_iterations' = a.max_iterations
           /\ current_fractal_type' = a.current_fractal_type
           /\ current_equation' = a.current_equation
           /\ fractal_data' = r.fractal_data
           /\ fractal_cache' = r.fractal_cache
           /\ generation_count' = Min(r.generation_count, cap)
    /\ UNCHANGED <<should_quit, mode, input_mode, show_help, fractal_generator, renderer,
                   termVars, callVars>>

PoorFps == 10
GoodFps == 30
OptimizeFloor == 50
OptimizeCap == 200

\* optimize_parameters_for_performance without the floor of its poor branch.
optimize_parameters_unfloored(mi, zoom, fps) ==
    IF fps < PoorFps /\ fps > 0
    THEN IF mi > OptimizeFloor THEN (mi * 9) \div 10 ELSE mi
    ELSE IF fps > GoodFps
    THEN IF mi < OptimizeCap /\ zoom > 5 * ZoomUnit
         THEN Min((mi * 11) \div 10, OptimizeCap)
         ELSE mi
    ELSE mi

\* optimize_parameters_for_performance as a function of the fields it reads: the
\* new max_iterations. fps is in frames per second.
optimize_parameters_for_performance(mi, zoom, fps) ==
    IF fps < PoorFps /\ fps > 0
    THEN IF mi > OptimizeFloor THEN Max((mi * 9) \div 10, OptimizeFloor) ELSE mi
    ELSE IF fps > GoodFps
    THEN IF mi < OptimizeCap /\ zoom > 5 * ZoomUnit
         THEN Min((mi * 11) \div 10, OptimizeCap)
         ELSE mi
    ELSE mi

\* The frame rates update_fps can have measured: 0.0 until the first
\* regeneration that ends a second or more after the last measurement.
FpsReadings == {0, 5, 20, 60}

\* The frame rates the App can hold: update_fps runs at the end of a
\* regeneration, so the rate is 0.0 while there is no grid.
PossibleFps == {fps \in FpsReadings : fps > 0 => ~fractal_data.empty}

\* update in the other modes, once two seconds have passed since the last
\* measurement of the frame rate.
Optimize(fps) ==
    /\ ~should_quit
    /\ mode # "AutoGenerate"
    /\ fps \in PossibleFps
    /\ max_iterations' = optimize_parameters_for_performance(max_iterations, zoom_factor, fps)
    /\ UNCHANGED <<modeVars, fractal_generator, renderer, zoom_factor, center_x,
                   center_y, current_fractal_type, current_equation, cacheVars, termVars,
                   callVars>>

\* ------------------------------------------------------------------------
\* The App driven by key, resize and draw events
\* ------------------------------------------------------------------------

MaxGenerations == 3

Init ==
    /\ fractal_generator = NewGenerator
    /\ AppNew
    /\ request = NoRequest
    /\ returned = NoResult
    /\ finished_rows = <<>>

Next ==
    \/ KeyRegenerate(MaxGenerations)
    \/ KeyZoomIn(MaxGenerations)
    \/ KeyZoomOut(MaxGenerations)
    \/ KeyPanUp(MaxGenerations)
    \/ KeyPanDown(MaxGenerations)
    \/ KeyPanLeft(MaxGenerations)
    \/ KeyPanRight(MaxGenerations)
    \/ KeyIncreaseIterations(MaxGenerations)
    \/ KeyDecreaseIterations(MaxGenerations)
    \/ KeyResetCenter(MaxGenerations)
    \/ KeyF2(MaxGenerations)
    \/ KeyF3(MaxGenerations)
    \/ KeyF4(MaxGenerations)
    \/ KeyF5(MaxGenerations)
    \/ KeyF6(MaxGenerations)
    \/ KeyF7
    \/ KeyF9(MaxGenerations)
    \/ KeyF10(MaxGenerations)
    \/ \E size \in TerminalSizes : handle_resize_event(size[1], size[2])
    \/ \E area \in DisplayAreas : render_fractal_display(area, MaxGenerations)

Spec == Init /\ [][Next]_vars

\* ------------------------------------------------------------------------
\* The App while the user only raises the iteration count: the cache fills
\* ------------------------------------------------------------------------

MaxFillGenerations == 102

\* The user walks right, repeats a view, or clears the cache.
NextFill ==
    \/ KeyRegenerate(MaxFillGenerations)
    \/ KeyPanRight(MaxFillGenerations)
    \/ KeyF7

SpecFill == Init /\ [][NextFill]_vars

\* The user walks right or repeats a view, never clears, and keeps walking:
\* every press of Right asks for a view not asked for before.
NextWalk ==
    \/ KeyRegenerate(MaxFillGenerations)
    \/ KeyPanRight(MaxFillGenerations)

SpecWalk ==
    /\ Init
    /\ [][NextWalk]_vars
    /\ WF_vars(KeyPanRight(MaxFillGenerations))

\* ------------------------------------------------------------------------
\* The App while the user switches modes and edits the equation
\* ------------------------------------------------------------------------

\* The texts the user types towards: "z^3+c", "z^12+c", "z^+4 + c", "Tricorn",
\* "julia(1,0)", " burningship ", and 'x' repeated past the length limit.
EditorTexts ==
    { <<"z", "^", "3", "+", "c">>,
      <<"z", "^", "1", "2", "+", "c">>,
      <<"z", "^", "+", "4", " ", "+", " ", "c">>,
      <<"T", "r", "i", "c", "o", "r", "n">>,
      <<"j", "u", "l", "i", "a", "(", "1", ",", "0", ")">>,
      <<" ", "b", "u", "r", "n", "i", "n", "g", "s", "h", "i", "p", " ">>,
      [i \in 1..(EquationLimit + 1) |-> "x"] }
TypedChars == { " ", "(", ")", "+", ",", "0", "1", "2", "3", "4", "T", "^", "a", "b", "c", "g", "h", "i", "j", "l", "n", "o", "p", "r", "s", "u", "x", "z" }
IsPrefix(text, whole) ==
    Len(text) <= Len(whole) /\ SubSeq(whole, 1, Len(text)) = text
TypedTowards(c) == \E whole \in EditorTexts : IsPrefix(Append(current_equation, c), whole)

NextEdit ==
    \/ KeyQuit
    \/ Key1
    \/ Key2
    \/ Key3
    \/ KeyF4(MaxGenerations)
    \/ EditEnter
    \/ EditEsc
    \/ EditBackspace
    \/ \E c \in TypedChars : TypedTowards(c) /\ EditChar(c)

SpecEdit == Init /\ [][NextEdit]_vars

\* ------------------------------------------------------------------------
\* The App while the user tunes the iteration count and the zoom, the frame
\* rate is measured, and auto-generation is switched on and off
\* ------------------------------------------------------------------------

MaxTuneGenerations == 2

NextTune ==
    \/ KeyIncreaseIterations(MaxTuneGenerations)
    \/ KeyDecreaseIterations(MaxTuneGenerations)
    \/ KeyZoomIn(MaxTuneGenerations)
    \/ Key1
    \/ Key2
    \/ \E fps \in FpsReadings : Optimize(fps)
    \/ \E point \in PointDraws : \E rx \in RngDraws : \E ry \in RngDraws :
          AutoTick(point, rx, ry, MaxTuneGenerations, FALSE)

SpecTune == Init /\ [][NextTune]_vars

\* ------------------------------------------------------------------------
\* The App in AutoGenerate mode: the user presses '2' and then leaves the
\* keyboard alone; the ticks never stop
\* ------------------------------------------------------------------------

NextAuto ==
    \/ mode # "AutoGenerate" /\ Key2
    \/ \E point \in PointDraws : \E rx \in RngDraws : \E ry \in RngDraws :
          AutoTick(point, rx, ry, MaxGenerations, TRUE)

\* The timer of update runs out again and again.
AutoFairness ==
    WF_vars(\E point \in PointDraws : \E rx \in RngDraws : \E ry \in RngDraws :
               AutoTick(point, rx, ry, MaxGenerations, TRUE))

SpecAuto == Init /\ [][NextAuto]_vars /\ WF_vars(Key2) /\ AutoFairness

\* ------------------------------------------------------------------------
\* The first tick of auto-generation after the user zoomed in: '+' pressed
\* again and again from App::new, then '2', then the timer runs out
\* ------------------------------------------------------------------------

MaxPresses == 60

\* Zooms of this harness are Wide values in units of 1/16.
DeepZoomUnit == 2 ^ 4

\* zoom_factor += (auto_target_zoom - zoom_factor) * 0.05 at phase 0, where the
\* target is 1.0 and the zoom is 1.0 or more
FirstTickZoom(zoom) ==
    WideMinus(zoom, WideDiv(WideMinus(zoom, Wide(DeepZoomUnit)), 20))

\* (zoom_factor * 2.0) as u32: the cast saturates at u32::MAX
DoubledAsU32(zoom) ==
    LET doubled == WideDiv(zoom, DeepZoomUnit \div 2)
    IN  IF doubled[1] >= 2 ^ 16 THEN <<2 ^ 16 - 1, 2 ^ 16 - 1>> ELSE doubled

InitDeep ==
    /\ fractal_generator = NewGenerator
    /\ AppNew
    /\ request = [presses |-> 0, zoom_factor |-> Wide(DeepZoomUnit)]
    /\ returned = NoResult
    /\ finished_rows = <<>>

\* '+' : zoom_in, zoom_factor *= 1.5
PressZoomIn ==
    /\ returned = NoResult
    /\ request.presses < MaxPresses
    /\ request' = [presses |-> request.presses + 1,
                   zoom_factor |-> WideDiv(WideTimes(request.zoom_factor, 3), 2)]
    /\ UNCHANGED <<fractal_generator, appVars, returned, finished_rows>>

\* '2' and then auto_update_parameters at phase 0 on the App the key presses
\* left. overflow_checks is the build's setting: with it an overflowing sum
\* panics.
FirstTick(overflow_checks) ==
    /\ returned = NoResult
    /\ LET zoom == FirstTickZoom(request.zoom_factor)
           sum == AutoSum(DoubledAsU32(zoom))
           beyond == WideAbove(zoom, Wide(10 * DeepZoomUnit))
       IN  returned' =
               IF beyond /\ sum.overflows /\ overflow_checks
               THEN [called |-> TRUE, panicked |-> TRUE,
                     auto_generation_phase |-> 0,
                     max_iterations |-> InitialIterations]
               ELSE [called |-> TRUE, panicked |-> FALSE,
                     auto_generation_phase |-> 1,
                     max_iterations |-> IF beyond THEN CappedAt(sum.value, AutoIterationsCap)
                                        ELSE InitialIterations]
    /\ UNCHANGED <<fractal_generator, appVars, request, finished_rows>>

NextDeep ==
    \/ PressZoomIn
    \/ \E overflow_checks \in BOOLEAN : FirstTick(overflow_checks)

SpecDeep == InitDeep /\ [][NextDeep]_vars

\* ------------------------------------------------------------------------
\* downsample_fractal on one 2x2 block of the doubled grid
\* (src/src/fractal.rs:93-122)
\* ------------------------------------------------------------------------

\* Iteration counts of the four cells of a block: small ones, and ones around a
\* quarter and a half of the u32 range. A cell holds up to the budget, which is
\* max_iterations itself when neither quality nor performance mode is set.
BlockCounts == {0, 1, 100, 2 ^ 30 - 1, 2 ^ 30, 2 ^ 30 + 1, 2147483647}

\* The four cells summed without a limit, as a Wide value.
BlockTotal(block) ==
    WidePlus(WidePlus(Wide(block[1]), Wide(block[2])),
             WidePlus(Wide(block[3]), Wide(block[4])))

\* The value of a Wide below 2^31
Narrow(w) == w[1] * 2 ^ 16 + w[2]

\* One cell of downsample_fractal where all four source cells exist: sum is a
\* u32, so a total of 2^32 or more overflows; with overflow checks the addition
\* panics, without them sum wraps.
DownsampledCell(block, overflow_checks) ==
    LET total == BlockTotal(block)
        sum == <<total[1] % 2 ^ 16, total[2]>>
    IN  IF total[1] >= 2 ^ 16 /\ overflow_checks
        THEN [called |-> TRUE, panicked |-> TRUE, cell |-> 0]
        ELSE [called |-> TRUE, panicked |-> FALSE, cell |-> Narrow(WideDiv(sum, 4))]

InitBlock ==
    /\ fractal_generator = NewGenerator
    /\ AppNew
    /\ request \in { [block |-> <<a, b, c, d>>] : a, b, c, d \in BlockCounts }
    /\ returned = NoResult
    /\ finished_rows = <<>>

DownsampleBlock(overflow_checks) ==
    /\ returned = NoResult
    /\ returned' = DownsampledCell(request.block, overflow_checks)
    /\ UNCHANGED <<fractal_generator, appVars, request, finished_rows>>

NextBlock == \E overflow_checks \in BOOLEAN : DownsampleBlock(overflow_checks)

SpecBlock == InitBlock /\ [][NextBlock]_vars

\* ------------------------------------------------------------------------
\* create_cache_key applied to a request
\* ------------------------------------------------------------------------

JuliaOther == [kind |-> "Julia", c |-> <<-700, 270>>]
KeyTypes == {Mandelbrot, JuliaPreset, JuliaOther, Multibrot3}
KeyWidths == {DefaultWidth, 78}
KeyCentersX == {-(CoordUnit \div 2), -(CoordUnit \div 2) - 4, -(CoordUnit \div 2) - 5,
                -(CoordUnit \div 2) - 15}
KeyCentersY == {0, -1, 1, 4, 5, 6, -5}
KeyZooms == {ZoomUnit, ZoomUnit + 4, ZoomUnit + 5, ZoomUnit + 15, (3 * ZoomUnit) \div 2}
KeyIterations == {InitialIterations, InitialIterations + IterationStepSize}
KeyRequests ==
    { Params(t, w, DefaultHeight, z, <<cx, cy>>, mi) :
        t \in KeyTypes, w \in KeyWidths, z \in KeyZooms,
        cx \in KeyCentersX, cy \in KeyCentersY, mi \in KeyIterations }

InitKey ==
    /\ fractal_generator = NewGenerator
    /\ AppNew
    /\ request \in KeyRequests
    /\ returned = NoResult
    /\ finished_rows = <<>>

CallCreateCacheKey ==
    /\ returned = NoResult
    /\ returned' = [called |-> TRUE, key |-> create_cache_key(request)]
    /\ UNCHANGED <<fractal_generator, appVars, request, finished_rows>>

NextKey == CallCreateCacheKey

SpecKey == InitKey /\ [][NextKey]_vars

\* ------------------------------------------------------------------------
\* The renderer used as a library: setters and render_to_text calls
\* ------------------------------------------------------------------------

\* A Vec<Vec<u32>> written as a sequence of rows.
GridOf(rows) ==
    [y \in 0..(Len(rows) - 1) |-> [x \in 0..(Len(rows[y + 1]) - 1) |-> rows[y + 1][x + 1]]]

RenderGrids ==
    { GridOf(<< >>),
      GridOf(<< <<5>> >>),
      GridOf(<< <<5, 120>> >>),
      GridOf(<< <<5, 99>> >>),
      GridOf(<< <<0, 300>>, <<7, 99>> >>),
      GridOf(<< <<0, 300>>, <<7, 100>> >>) }

MaxTarget == 2

rendererRest == <<fractal_generator, modeVars, viewVars, cacheVars, termVars>>

set_fast_rendering(enabled) ==
    /\ renderer' = [renderer EXCEPT !.use_fast_rendering = enabled]
    /\ UNCHANGED <<rendererRest, callVars>>

TerminalRenderer_set_quality_mode(enabled) ==
    /\ renderer' = [renderer EXCEPT !.quality_mode = enabled]
    /\ UNCHANGED <<rendererRest, callVars>>

set_use_colors(use_colors) ==
    /\ renderer' = [renderer EXCEPT !.use_colors = use_colors]
    /\ UNCHANGED <<rendererRest, callVars>>

set_use_unicode(use_unicode) ==
    /\ renderer' = [renderer EXCEPT !.use_unicode = use_unicode]
    /\ UNCHANGED <<rendererRest, callVars>>

\* render_to_text(data, target_width, target_height); returned keeps the lines
\* and the use_fast_rendering the call ran with.
render_to_text(data, target_width, target_height) ==
    /\ request' = [fractal_data |-> data, target_width |-> target_width,
                   target_height |-> target_height]
    /\ returned' = [called |-> TRUE,
                    op |-> "render_to_text",
                    lines |-> RenderedLines(renderer, data, target_width, target_height),
                    use_fast_rendering |-> renderer.use_fast_rendering]
    /\ renderer' = RenderedState(renderer, data)
    /\ UNCHANGED <<rendererRest, finished_rows>>

InitRender ==
    /\ fractal_generator = NewGenerator
    /\ AppNew
    /\ request = NoRequest
    /\ returned = NoResult
    /\ finished_rows = <<>>

NextRender ==
    \/ \E enabled \in BOOLEAN : set_fast_rendering(enabled)
    \/ \E enabled \in BOOLEAN : TerminalRenderer_set_quality_mode(enabled)
    \/ \E use_colors \in BOOLEAN : set_use_colors(use_colors)
    \/ \E use_unicode \in BOOLEAN : set_use_unicode(use_unicode)
    \/ \E data \in RenderGrids, target_width \in 1..MaxTarget,
          target_height \in 1..MaxTarget :
            render_to_text(data, target_width, target_height)

SpecRender == InitRender /\ [][NextRender]_vars

\* ------------------------------------------------------------------------
\* The renderer used as a library: setters and calls of render_to_text,
\* render_to_text_with_bounds and render_to_string in any order
\* ------------------------------------------------------------------------

\* The String render_to_string returns, as its rows of characters.
RenderedString(rend, data) ==
    [y \in 0..(GridHeight(data) - 1) |->
        [x \in 0..(GridWidth(data, y) - 1) |->
            iterations_to_char_and_color(rend, data[y][x])[1]]]

\* render_to_string(data): it takes &self.
render_to_string(data) ==
    /\ request' = [fractal_data |-> data]
    /\ returned' = [called |-> TRUE,
                    op |-> "render_to_string",
                    text |-> RenderedString(renderer, data)]
    /\ UNCHANGED <<renderer, rendererRest, finished_rows>>

\* render_to_text_with_bounds(data, 0, 0, target_width, target_height,
\* target_width, target_height) between other calls.
BoundedCall(data, target_width, target_height) ==
    /\ request' = [fractal_data |-> data, target_width |-> target_width,
                   target_height |-> target_height]
    /\ returned' = [called |-> TRUE,
                    op |-> "render_to_text_with_bounds",
                    lines |-> BoundedLines(renderer, data, 0, 0, target_width,
                                           target_height, target_width, target_height)]
    /\ UNCHANGED <<renderer, rendererRest, finished_rows>>

NextRetain ==
    \/ \E enabled \in BOOLEAN : set_fast_rendering(enabled)
    \/ \E enabled \in BOOLEAN : TerminalRenderer_set_quality_mode(enabled)
    \/ \E use_colors \in BOOLEAN : set_use_colors(use_colors)
    \/ \E use_unicode \in BOOLEAN : set_use_unicode(use_unicode)
    \/ \E data \in RenderGrids, target_width \in 1..MaxTarget,
          target_height \in 1..MaxTarget :
            render_to_text(data, target_width, target_height)
    \/ \E data \in RenderGrids, target_width \in 1..MaxTarget,
          target_height \in 1..MaxTarget :
            BoundedCall(data, target_width, target_height)
    \/ \E data \in RenderGrids : render_to_string(data)

SpecRetain == InitRender /\ [][NextRetain]_vars

\* ------------------------------------------------------------------------
\* iterations_to_char_and_color applied to a count
\* ------------------------------------------------------------------------

MaxCount == 300

\* The counts looked up: 0..MaxCount and the largest integer the checker
\* represents.
Counts == 0..MaxCount \cup {2147483647}

InitQuantize ==
    /\ fractal_generator = NewGenerator
    /\ AppNew
    /\ request \in [iterations : Counts]
    /\ returned = NoResult
    /\ finished_rows = <<>>

CallQuantize ==
    /\ returned = NoResult
    /\ returned' = [called |-> TRUE,
                    char_and_color |->
                        iterations_to_char_and_color(renderer, request.iterations)]
    /\ UNCHANGED <<fractal_generator, appVars, request, finished_rows>>

NextQuantize ==
    \/ \E use_unicode \in BOOLEAN : returned = NoResult /\ set_use_unicode(use_unicode)
    \/ \E enabled \in BOOLEAN :
          returned = NoResult /\ TerminalRenderer_set_quality_mode(enabled)
    \/ \E use_colors \in BOOLEAN : returned = NoResult /\ set_use_colors(use_colors)
    \/ CallQuantize

SpecQuantize == InitQuantize /\ [][NextQuantize]_vars

\* ------------------------------------------------------------------------
\* The renderer used as a library: setters, then one render_to_text_with_bounds
\* ------------------------------------------------------------------------

BoundsRequests ==
    { [fractal_data |-> data, start_x |-> start_x, start_y |-> start_y,
       display_width |-> display_width, display_height |-> display_height,
       target_width |-> target_width, target_height |-> target_height] :
        data \in RenderGrids, start_x \in 0..1, start_y \in 0..1,
        display_width \in 0..(MaxTarget + 1), display_height \in 0..(MaxTarget + 1),
        target_width \in 1..(MaxTarget + 1), target_height \in 1..MaxTarget }

InitBounds ==
    /\ fractal_generator = NewGenerator
    /\ AppNew
    /\ request \in BoundsRequests
    /\ returned = NoResult
    /\ finished_rows = <<>>

render_to_text_with_bounds ==
    /\ returned = NoResult
    /\ returned' = [called |-> TRUE,
                    lines |-> BoundedLines(renderer, request.fractal_data,
                                           request.start_x, request.start_y,
                                           request.display_width, request.display_height,
                                           request.target_width, request.target_height)]
    /\ UNCHANGED <<fractal_generator, appVars, request, finished_rows>>

NextBounds ==
    \/ \E use_unicode \in BOOLEAN : returned = NoResult /\ set_use_unicode(use_unicode)
    \/ \E enabled \in BOOLEAN :
          returned = NoResult /\ TerminalRenderer_set_quality_mode(enabled)
    \/ \E use_colors \in BOOLEAN : returned = NoResult /\ set_use_colors(use_colors)
    \/ render_to_text_with_bounds

SpecBounds == InitBounds /\ [][NextBounds]_vars

\* ------------------------------------------------------------------------
\* Config (src/src/config.rs): construct the default, assign public fields,
\* validate. Only the fields validate reads or the specification names are
\* kept; f64 fields are in ZoomUnit steps.
\* ------------------------------------------------------------------------

\* impl Default for Config
ConfigDefault ==
    [default_width |-> 80,
     default_height |-> 40,
     default_zoom |-> ZoomUnit,
     default_max_iterations |-> 256,
     auto_generation_interval_ms |-> 2000,
     zoom_step |-> 3 * (ZoomUnit \div 2),
     thread_count |-> None]

\* Values a caller assigns to each field.
ConfigValues ==
    [default_width |-> {0, 80},
     default_height |-> {0, 40},
     default_zoom |-> {-ZoomUnit, 0, ZoomUnit},
     default_max_iterations |-> {0, 256},
     auto_generation_interval_ms |-> {0, 2000},
     zoom_step |-> {-ZoomUnit, 0, 3 * (ZoomUnit \div 2)},
     thread_count |-> {None, Some(0), Some(4)}]

Ok == [ok |-> TRUE]
Err(message) == [ok |-> FALSE, message |-> message]

validate(config) ==
    IF config.default_width = 0 \/ config.default_height = 0
    THEN Err("Display dimensions must be greater than 0")
    ELSE IF config.default_max_iterations = 0
    THEN Err("Max iterations must be greater than 0")
    ELSE IF config.zoom_step <= 0
    THEN Err("Zoom step must be positive")
    ELSE IF config.auto_generation_interval_ms = 0
    THEN Err("Auto generation interval must be greater than 0")
    ELSE IF config.thread_count.some /\ config.thread_count.value = 0
    THEN Err("Thread count must be greater than 0")
    ELSE Ok

InitConfig ==
    /\ fractal_generator = NewGenerator
    /\ AppNew
    /\ request = ConfigDefault
    /\ returned = NoResult
    /\ finished_rows = <<>>

\* config.<field> = value, before validate is called
SetConfigField(field, value) ==
    /\ returned = NoResult
    /\ request' = [request EXCEPT ![field] = value]
    /\ UNCHANGED <<fractal_generator, appVars, returned, finished_rows>>

CallValidate ==
    /\ returned = NoResult
    /\ returned' = [called |-> TRUE, result |-> validate(request)]
    /\ UNCHANGED <<fractal_generator, appVars, request, finished_rows>>

NextConfig ==
    \/ \E field \in DOMAIN ConfigValues :
           \E value \in ConfigValues[field] : SetConfigField(field, value)
    \/ CallValidate

SpecConfig == InitConfig /\ [][NextConfig]_vars

\* ------------------------------------------------------------------------
\* The generator used as a library: construct, set flags, generate
\* ------------------------------------------------------------------------

InitGen ==
    /\ fractal_generator = NewGenerator
    /\ AppNew
    /\ request \in GenRequests
    /\ returned = NoResult
    /\ finished_rows = <<>>

set_performance_mode(enabled) ==
    /\ returned = NoResult
    /\ finished_rows = <<>>
    /\ fractal_generator' = [fractal_generator EXCEPT !.performance_mode = enabled]
    /\ UNCHANGED <<appVars, callVars>>

set_adaptive_sampling(enabled) ==
    /\ returned = NoResult
    /\ finished_rows = <<>>
    /\ fractal_generator' = [fractal_generator EXCEPT !.use_adaptive_sampling = enabled]
    /\ UNCHANGED <<appVars, callVars>>

set_quality_mode(enabled) ==
    /\ returned = NoResult
    /\ finished_rows = <<>>
    /\ fractal_generator' = [fractal_generator EXCEPT !.quality_mode = enabled]
    /\ UNCHANGED <<appVars, callVars>>

set_super_sampling(enabled) ==
    /\ returned = NoResult
    /\ finished_rows = <<>>
    /\ fractal_generator' = [fractal_generator EXCEPT !.super_sampling = enabled]
    /\ UNCHANGED <<appVars, callVars>>

CallGenerate ==
    /\ returned = NoResult
    /\ returned' = [called |-> TRUE, grid |-> generate(fractal_generator, request)]
    /\ UNCHANGED <<fractal_generator, appVars, request, finished_rows>>

NextGen ==
    \/ \E enabled \in BOOLEAN : set_performance_mode(enabled)
    \/ \E enabled \in BOOLEAN : set_adaptive_sampling(enabled)
    \/ \E enabled \in BOOLEAN : set_quality_mode(enabled)
    \/ \E enabled \in BOOLEAN : set_super_sampling(enabled)
    \/ CallGenerate

SpecGen == InitGen /\ [][NextGen]_vars

\* ------------------------------------------------------------------------
\* The row workers of generate_mandelbrot (src/src/fractal.rs:153-165 and
\* 179-193): (0..height).into_par_iter().map(row closure).collect()
\* ------------------------------------------------------------------------

MaxRows == 3

RowRequests ==
    { Params(Mandelbrot, 2, h, z, c, mi) :
        h \in 1..MaxRows, z \in GenZooms, c \in GenCenters, mi \in {30, 50} }

UsesAdaptive(gen, params) ==
    gen.use_adaptive_sampling /\ params.zoom > AdaptiveZoom * ZoomUnit

\* The length of the range the parallel iterator runs over: height, or
\* sample_height on the adaptive path.
RowCount(gen, params) ==
    LET sample_step == 2
    IN  IF UsesAdaptive(gen, params)
        THEN (params.height + sample_step - 1) \div sample_step
        ELSE params.height

\* The closure one worker runs for row index y. It reads the request, the
\* budget and y, and nothing else.
RowOf(gen, params, y) ==
    LET max_iter == MandelbrotBudget(gen, params.max_iterations)
        sample_step == 2
        sample_width == (params.width + sample_step - 1) \div sample_step
    IN  IF UsesAdaptive(gen, params)
        THEN [sx \in 0..(sample_width - 1) |->
                mandelbrot_iterations(
                    PixelPoint(params, sx * sample_step, y * sample_step), max_iter)]
        ELSE [x \in 0..(params.width - 1) |->
                mandelbrot_iterations(PixelPoint(params, x, y), max_iter)]

\* A collect that keeps the rows in the order the workers finished them.
CollectedInArrivalOrder(finished) ==
    [y \in 0..(Len(finished) - 1) |-> finished[y + 1].row]

\* collect() of an indexed parallel iterator: the row of index y lands at
\* position y, whenever it was finished.
Collected(finished) ==
    [y \in 0..(Len(finished) - 1) |->
        finished[CHOOSE i \in 1..Len(finished) : finished[i].index = y].row]

\* The sequential loop that stretches sampled_data to full resolution.
Upscaled(params, sampled_data) ==
    LET sample_step   == 2
        sample_width  == (params.width + sample_step - 1) \div sample_step
        sample_height == (params.height + sample_step - 1) \div sample_step
    IN  [y \in 0..(params.height - 1) |->
            [x \in 0..(params.width - 1) |->
                LET sx == Min(x \div sample_step, sample_width - 1)
                    sy == Min(y \div sample_step, sample_height - 1)
                IN  sampled_data[sy][sx]]]

InitRows ==
    /\ fractal_generator = NewGenerator
    /\ AppNew
    /\ request \in RowRequests
    /\ returned = NoResult
    /\ finished_rows = <<>>

\* One worker takes a row index nobody has finished and finishes it. Which
\* index comes next is the scheduler's choice; any number of workers gives
\* some such order.
RowWorker(y) ==
    /\ returned = NoResult
    /\ y \in 0..(RowCount(fractal_generator, request) - 1)
    /\ \A i \in 1..Len(finished_rows) : finished_rows[i].index # y
    /\ finished_rows' =
           Append(finished_rows,
                  [index |-> y, row |-> RowOf(fractal_generator, request, y)])
    /\ UNCHANGED <<fractal_generator, appVars, request, returned>>

\* The join at the end of collect(), and the rest of generate_mandelbrot.
JoinRows ==
    /\ returned = NoResult
    /\ Len(finished_rows) = RowCount(fractal_generator, request)
    /\ returned' =
           [called |-> TRUE,
            grid |-> IF UsesAdaptive(fractal_generator, request)
                     THEN Upscaled(request, Collected(finished_rows))
                     ELSE Collected(finished_rows)]
    /\ UNCHANGED <<fractal_generator, appVars, request, finished_rows>>

NextRows ==
    \/ \E enabled \in BOOLEAN : set_performance_mode(enabled)
    \/ \E enabled \in BOOLEAN : set_adaptive_sampling(enabled)
    \/ \E enabled \in BOOLEAN : set_quality_mode(enabled)
    \/ \E enabled \in BOOLEAN : set_super_sampling(enabled)
    \/ \E y \in 0..(MaxRows - 1) : RowWorker(y)
    \/ JoinRows

SpecRows == InitRows /\ [][NextRows]_vars

\* ------------------------------------------------------------------------
\* The budget of generate_mandelbrot for large iteration counts
\* (src/src/fractal.rs:130-137), under both settings of overflow checks
\* ------------------------------------------------------------------------

MaxSmallBudgetInput == 4

\* max_iterations around the cap of the quality transform, around the largest
\* count whose triple fits in a u32 (1431655765), and the largest count the
\* model's integers hold.
BudgetInputs ==
    1..MaxSmallBudgetInput
        \cup {30, 341, 342, 1000, 1431655765, 1431655766, 1431655767, 2147483647}

InitBudget ==
    /\ fractal_generator = NewGenerator
    /\ AppNew
    /\ request \in { Params(Mandelbrot, 1, 1, ZoomUnit, <<0, 0>>, mi) : mi \in BudgetInputs }
    /\ returned = NoResult
    /\ finished_rows = <<>>

\* The first statement of generate_mandelbrot. overflow_checks is the build's
\* setting: with it an overflowing params.max_iterations * 3 panics.
ComputeBudget(overflow_checks) ==
    /\ returned = NoResult
    /\ returned' =
           IF /\ overflow_checks
              /\ ~fractal_generator.performance_mode
              /\ fractal_generator.quality_mode
              /\ TimesThreeOverflows(request.max_iterations)
           THEN [called |-> TRUE, panicked |-> TRUE, budget |-> 0]
           ELSE [called |-> TRUE, panicked |-> FALSE,
                 budget |-> MandelbrotBudget(fractal_generator, request.max_iterations)]
    /\ UNCHANGED <<fractal_generator, appVars, request, finished_rows>>

NextBudget ==
    \/ \E enabled \in BOOLEAN : set_performance_mode(enabled)
    \/ \E enabled \in BOOLEAN : set_adaptive_sampling(enabled)
    \/ \E enabled \in BOOLEAN : set_quality_mode(enabled)
    \/ \E enabled \in BOOLEAN : set_super_sampling(enabled)
    \/ \E overflow_checks \in BOOLEAN : ComputeBudget(overflow_checks)

SpecBudget == InitBudget /\ [][NextBudget]_vars

\* ------------------------------------------------------------------------
\* Properties of FractalGenerator::generate (checked under SpecGen)
\* ------------------------------------------------------------------------

\* The budget transform as the specification words it.
EffectiveBudget(gen, max_iter) ==
    IF gen.performance_mode THEN Max(max_iter \div 2, 20)
    ELSE IF gen.quality_mode THEN Min((max_iter * 3) \div 2, 512)
    ELSE max_iter

\* grid has exactly height rows of exactly width cells
HasShape(grid, width, height) ==
    /\ DOMAIN grid = 0..(height - 1)
    /\ \A y \in DOMAIN grid : DOMAIN grid[y] = 0..(width - 1)

\* The escape count of the variant's own rule at a plane point, under a budget.
VariantIterations(t, point, budget) ==
    CASE t.kind \in {"Mandelbrot", "Custom"} -> mandelbrot_iterations(point, budget)
      [] t.kind = "Julia"       -> julia_iterations(point, t.c, budget)
      [] t.kind = "BurningShip" -> burning_ship_iterations(point, budget)
      [] t.kind = "Tricorn"     -> tricorn_iterations(point, budget)
      [] t.kind = "Multibrot"   -> multibrot_iterations(point, t.power, budget)

AdaptiveTriggered == fractal_generator.use_adaptive_sampling /\ request.zoom > 10 * ZoomUnit

\* C1: for every valid request, every variant and every flag combination the
\* returned grid has height rows of width cells and every cell lies in
\* [0, effective budget].
C1_ShapeAndRange ==
    returned.called =>
        /\ HasShape(returned.grid, request.width, request.height)
        /\ \A y \in DOMAIN returned.grid : \A x \in DOMAIN returned.grid[y] :
              /\ returned.grid[y][x] >= 0
              /\ returned.grid[y][x] <=
                    EffectiveBudget(fractal_generator, request.max_iterations)

\* C2: for every variant each cell is iterated with the effective budget (stated
\* for plain per-pixel sampling: no super-sampling, adaptive sampling not
\* triggered), so a cell that never escapes holds exactly that budget.
C2_BudgetEveryVariant ==
    (returned.called /\ ~fractal_generator.super_sampling /\ ~AdaptiveTriggered) =>
        \A y \in 0..(request.height - 1) : \A x \in 0..(request.width - 1) :
            returned.grid[y][x] =
                VariantIterations(request.fractal_type, PixelPoint(request, x, y),
                    EffectiveBudget(fractal_generator, request.max_iterations))

\* C3: with performance_mode and quality_mode both set, generate returns the grid
\* it returns with performance_mode set and quality_mode clear.
C3_PerformanceWins ==
    (returned.called /\ fractal_generator.performance_mode
                     /\ fractal_generator.quality_mode) =>
        returned.grid =
            generate([fractal_generator EXCEPT !.quality_mode = FALSE], request)

\* C3 witness: both flags set, generate has returned, and the quality transform
\* alone would have given another grid.
C3_Witness ==
    /\ returned.called
    /\ fractal_generator.performance_mode
    /\ fractal_generator.quality_mode
    /\ returned.grid #
         generate([fractal_generator EXCEPT !.performance_mode = FALSE], request)

\* C4: whenever adaptive sampling is triggered (flag set, zoom > 10) and
\* super-sampling is off, for every variant all cells of a 2x2-aligned block that
\* lie inside the grid are equal.
C4_BlockUniform ==
    (returned.called /\ AdaptiveTriggered /\ ~fractal_generator.super_sampling) =>
        \A y \in 0..(request.height - 1) : \A x \in 0..(request.width - 1) :
            returned.grid[y][x] = returned.grid[2 * (y \div 2)][2 * (x \div 2)]

\* The doubled grid super-sampling computes for the request.
DoubledGrid ==
    generate_standard(fractal_generator,
        [request EXCEPT !.width = 2 * request.width, !.height = 2 * request.height])

\* C5: with super_sampling set the result is width x height, cell (x, y) is the
\* floor of the average of the four cells (2x+dx, 2y+dy) of the doubled grid, and
\* a doubled grid that is constant v gives a grid that is constant v.
C5_BoxDownsample ==
    (returned.called /\ fractal_generator.super_sampling) =>
        LET S == DoubledGrid
        IN  /\ HasShape(S, 2 * request.width, 2 * request.height)
            /\ HasShape(returned.grid, request.width, request.height)
            /\ \A y \in 0..(request.height - 1) : \A x \in 0..(request.width - 1) :
                  returned.grid[y][x] =
                    (S[2 * y][2 * x] + S[2 * y][2 * x + 1]
                       + S[2 * y + 1][2 * x] + S[2 * y + 1][2 * x + 1]) \div 4
            /\ \A v \in 0..QualityCap :
                  (\A y \in DOMAIN S : \A x \in DOMAIN S[y] : S[y][x] = v) =>
                  (\A y \in DOMAIN returned.grid : \A x \in DOMAIN returned.grid[y] :
                      returned.grid[y][x] = v)

\* C5 witness: a super-sampled result with a block whose four cells differ and
\* whose sum is not a multiple of four (the floor matters), and (another cell or
\* the same) a result cell differing from the block's top-left sample.
C5_Witness ==
    /\ returned.called
    /\ fractal_generator.super_sampling
    /\ LET S == DoubledGrid
       IN  \E y \in 0..(request.height - 1) : \E x \in 0..(request.width - 1) :
             /\ (S[2 * y][2 * x] + S[2 * y][2 * x + 1]
                   + S[2 * y + 1][2 * x] + S[2 * y + 1][2 * x + 1]) % 4 # 0
             /\ returned.grid[y][x] # S[2 * y][2 * x]

\* The request regenerate_fractal would build in the current state, and its key.
CurrentParams ==
    AppParams(current_fractal_type, zoom_factor, center_x, center_y, max_iterations,
              fractal_display_area)
CurrentKey == create_cache_key(CurrentParams)

\* Two consecutive regenerate_fractal calls from the current state.
FirstCall == Regenerated(fractal_generator, CurrentParams, fractal_cache, generation_count)
SecondCall ==
    Regenerated(fractal_generator, CurrentParams, FirstCall.fractal_cache,
                FirstCall.generation_count)
SecondCallIsHit ==
    /\ SecondCall.fractal_data = FirstCall.fractal_data
    /\ SecondCall.generation_count = FirstCall.generation_count

\* C6 (as stated): in every reachable state, two consecutive regenerate_fractal
\* calls with nothing changed in between leave fractal_data identical and the
\* second call does not increment generation_count.
C6_IdempotentEverywhere == SecondCallIsHit

\* C6 (amended): the same, in every reachable state whose cache holds fewer than
\* 50 entries or already holds the current key; in the other states the grid is
\* still identical but the second call generates again.
C6_IdempotentBelowCeiling ==
    /\ SecondCall.fractal_data = FirstCall.fractal_data
    /\ (CacheLen(fractal_cache) < 50 \/ CurrentKey \in DOMAIN fractal_cache)
           => SecondCallIsHit
    /\ (CacheLen(fractal_cache) >= 50 /\ CurrentKey \notin DOMAIN fractal_cache)
           => SecondCall.generation_count = FirstCall.generation_count + 1

\* A grid is on display, the cache has room and misses the current key: the
\* first call generates and stores, the second is served from the cache.
C6_Witness ==
    /\ ~fractal_data.empty
    /\ generation_count > 0
    /\ CacheLen(fractal_cache) < 50
    /\ CurrentKey \notin DOMAIN fractal_cache
    /\ FirstCall.generation_count = generation_count + 1
    /\ CurrentKey \in DOMAIN FirstCall.fractal_cache
    /\ SecondCallIsHit

\* C7: a user who keeps asking for new views fills the cache up to the hard
\* capacity of 100 entries (where the next miss clears it).
C7_FillsToHardCapacity == <>(CacheLen(fractal_cache) = 100)

\* C8: a step that toggles performance mode, adaptive sampling, quality mode or
\* super-sampling leaves a cache of at most one entry, every entry of it and the
\* grid on display generated under the new flags by that step.
C8_ToggleInvalidates ==
    [][ fractal_generator' # fractal_generator =>
          /\ CacheLen(fractal_cache') <= 1
          /\ \A k \in DOMAIN fractal_cache' :
                /\ fractal_cache'[k].gen = fractal_generator'
                /\ fractal_cache'[k] = fractal_data'
          /\ fractal_data'.gen = fractal_generator'
          /\ fractal_data'.params = CurrentParams
          /\ generation_count' = generation_count + 1 ]_vars

\* A toggle has just regenerated after earlier generations: the flags differ from
\* the initial ones and the cache holds exactly the grid on display, generated
\* under the current flags.
C8_Witness ==
    /\ fractal_generator # NewGenerator
    /\ generation_count >= 2
    /\ CacheLen(fractal_cache) = 1
    /\ fractal_data.gen = fractal_generator
    /\ \A k \in DOMAIN fractal_cache : fractal_cache[k] = fractal_data

\* handle_resize_event(width, height) applied to the current state.
ResizedHere(size) ==
    Resized(last_terminal_size, fractal_display_area, fractal_cache, size[1], size[2])

\* C9 (as stated): in every reachable state, after handle_resize_event(w, h) the
\* cache is empty, fractal_display_area is None and last_terminal_size is (w, h).
C9_EveryResizeInvalidates ==
    \A size \in TerminalSizes :
        /\ ResizedHere(size).fractal_cache = <<>>
        /\ ResizedHere(size).fractal_display_area = None
        /\ ResizedHere(size).last_terminal_size = Some(size)

\* C9 (amended): that holds for every event whose size differs from
\* last_terminal_size; an event that repeats last_terminal_size changes nothing;
\* either way last_terminal_size is the event's size afterwards.
C9_ChangedResizeInvalidates ==
    \A size \in TerminalSizes :
        /\ ResizedHere(size).last_terminal_size = Some(size)
        /\ last_terminal_size # Some(size) =>
              /\ ResizedHere(size).fractal_cache = <<>>
              /\ ResizedHere(size).fractal_display_area = None
        /\ last_terminal_size = Some(size) =>
              /\ ResizedHere(size).fractal_cache = fractal_cache
              /\ ResizedHere(size).fractal_display_area = fractal_display_area

\* A resize to a new size has just been handled after a draw had set the area
\* and filled the cache: the grid on display has the drawn area's size, the area
\* is None again and the cache is empty.
C9_Witness ==
    /\ last_terminal_size.some
    /\ fractal_display_area = None
    /\ fractal_cache = <<>>
    /\ ~fractal_data.empty
    /\ fractal_data.width # DefaultWidth
    /\ \E size \in TerminalSizes : last_terminal_size # Some(size)

\* The number a stored value rounds to when its last digit is dropped.
RoundedValue(v) == IF v < 0 THEN -RoundLastDigit(-v) ELSE RoundLastDigit(v)

SameUpToPrecision(a, b) ==
    /\ a.fractal_type = b.fractal_type
    /\ a.width = b.width
    /\ a.height = b.height
    /\ a.max_iterations = b.max_iterations
    /\ RoundedValue(a.center_x) = RoundedValue(b.center_x)
    /\ RoundedValue(a.center_y) = RoundedValue(b.center_y)
    /\ RoundedValue(a.zoom) = RoundedValue(b.zoom)

\* C10: two requests get the same cache key if and only if they have the same
\* variant and parameters, width, height and max_iterations, the same center
\* after rounding to 6 decimals and the same zoom after rounding to 3 decimals.
C10_KeyIffSameRounded ==
    returned # NoResult =>
        \A other \in KeyRequests :
            (create_cache_key(other) = returned.key) <=> SameUpToPrecision(request, other)

\* ------------------------------------------------------------------------
\* Properties of TerminalRenderer (checked under SpecQuantize and SpecRender)
\* ------------------------------------------------------------------------

\* Bucket i of a table as a range of counts: lo..=hi, and for the last arm every
\* count above the arm before it.
InBucket(arms, i, count) ==
    IF arms[i].wild
    THEN i > 1 /\ count > arms[i - 1].hi
    ELSE arms[i].lo <= count /\ count <= arms[i].hi

\* The renderer of NewRenderer with the two selector flags set.
Selection(use_unicode, quality_mode) ==
    [NewRenderer EXCEPT !.use_unicode = use_unicode, !.quality_mode = quality_mode]

\* C11: for the table of every (palette, detail) selection, the buckets are
\* contiguous ranges in increasing order starting at 0, the last one unbounded
\* above, every count lies in exactly one bucket and gets that bucket's glyph and
\* color, and the lookup depends only on use_unicode and quality_mode.
C11_TablesExhaustive ==
    LET arms == SelectedArms(renderer)
        n == Len(arms)
        count == request.iterations
    IN  /\ n >= 2
        /\ arms[n].wild
        /\ \A i \in 1..(n - 1) : ~arms[i].wild /\ arms[i].lo <= arms[i].hi
        /\ arms[1].lo = 0
        /\ \A i \in 1..(n - 2) : arms[i + 1].lo = arms[i].hi + 1
        /\ returned.called =>
              /\ Cardinality({i \in 1..n : InBucket(arms, i, count)}) = 1
              /\ \A i \in 1..n :
                    InBucket(arms, i, count) =>
                        returned.char_and_color = <<arms[i].glyph, arms[i].color>>
              /\ returned.char_and_color
                    = iterations_to_char_and_color(
                          Selection(renderer.use_unicode, renderer.quality_mode), count)

\* A count of the last bucket has been looked up with the ascii palette and
\* standard detail, use_colors changed from its initial value.
C11_Witness ==
    /\ returned.called
    /\ ~renderer.use_unicode
    /\ ~renderer.quality_mode
    /\ ~renderer.use_colors
    /\ request.iterations = 100
    /\ returned.char_and_color = <<"#", "LightMagenta">>

NonEmptyGrid(data) == GridHeight(data) > 0
SameDimensions(a, b) ==
    GridHeight(a) = GridHeight(b) /\ GridWidth(a, 0) = GridWidth(b, 0)

AllBlank(lines) ==
    \A y \in DOMAIN lines : \A x \in DOMAIN lines[y] : lines[y][x] = Raw(" ")

AllGlyphs(rend, data, lines) ==
    \A y \in DOMAIN lines : \A x \in DOMAIN lines[y] :
        lines[y][x] = SpanOf(rend, iterations_to_char_and_color(rend, data[y][x]))

\* What the next render_to_text call on data would return, for every target.
NextRenderAllBlank(data) ==
    \A target_width \in 1..MaxTarget, target_height \in 1..MaxTarget :
        AllBlank(RenderedLines(renderer, data, target_width, target_height))
NextRenderAllGlyphs(data) ==
    \A target_width \in 1..MaxTarget, target_height \in 1..MaxTarget :
        AllGlyphs(renderer, data,
                  RenderedLines(renderer, data, target_width, target_height))

\* C12 (as stated): with use_fast_rendering enabled, a render_to_text call on
\* the grid of the immediately preceding call emits a blank for every cell; the
\* first call ever and the first call on a grid whose dimensions differ from the
\* preceding call's grid emit every cell's table glyph.
C12_Differential ==
    /\ (returned.called /\ renderer.use_fast_rendering
           /\ NonEmptyGrid(request.fractal_data))
          => NextRenderAllBlank(request.fractal_data)
    /\ ~returned.called =>
          \A data \in RenderGrids : NonEmptyGrid(data) => NextRenderAllGlyphs(data)
    /\ returned.called =>
          \A data \in RenderGrids :
              (NonEmptyGrid(data) /\ ~SameDimensions(data, request.fractal_data))
                  => NextRenderAllGlyphs(data)

\* The preceding call kept its grid: it ran with use_fast_rendering on a
\* non-empty grid.
PrecedingCallKept ==
    /\ returned.called
    /\ returned.use_fast_rendering
    /\ NonEmptyGrid(request.fractal_data)

\* C12 (amended): the same, where the preceding call also ran with
\* use_fast_rendering enabled on a non-empty grid (so that its grid is the one
\* retained); without that the retained grid is an older one or none.
C12_DifferentialKept ==
    /\ (PrecedingCallKept /\ renderer.use_fast_rendering)
          => NextRenderAllBlank(request.fractal_data)
    /\ ~returned.called =>
          \A data \in RenderGrids : NonEmptyGrid(data) => NextRenderAllGlyphs(data)
    /\ (PrecedingCallKept \/ (returned.called /\ ~renderer.use_fast_rendering)) =>
          \A data \in RenderGrids :
              (NonEmptyGrid(data) /\ ~SameDimensions(data, request.fractal_data))
                  => NextRenderAllGlyphs(data)

\* A second call on the same grid has just returned all blanks for a grid whose
\* glyphs are not blanks.
C12_Witness ==
    /\ PrecedingCallKept
    /\ renderer.use_fast_rendering
    /\ renderer.last_rendered_data = [some |-> TRUE, value |-> request.fractal_data]
    /\ AllBlank(returned.lines)
    /\ \E y \in DOMAIN returned.lines : \E x \in DOMAIN returned.lines[y] :
          iterations_to_char_and_color(renderer, request.fractal_data[y][x])[1] # " "

\* C17: in each palette, quality_mode on selects a table with more ranges than
\* quality_mode off, and some count is quantized differently under the two.
C17_FinerQualityTable ==
    LET fine == [renderer EXCEPT !.quality_mode = TRUE]
        coarse == [renderer EXCEPT !.quality_mode = FALSE]
    IN  /\ Len(SelectedArms(fine)) > Len(SelectedArms(coarse))
        /\ \E count \in Counts :
              iterations_to_char_and_color(fine, count)
                  # iterations_to_char_and_color(coarse, count)

\* The offset that centers a window of length display in a target of length
\* target.
CenterOffset(display, target) ==
    IF display < target THEN (target - display) \div 2 ELSE 0

\* C13: for a non-empty grid render_to_text_with_bounds returns target_height
\* lines of target_width cells; a target cell inside the centered window whose
\* source cell lies inside the grid carries the source cell's table glyph and
\* color, every other target cell is the blank cell (' ', Black).
C13_Windowed ==
    (returned.called /\ NonEmptyGrid(request.fractal_data)) =>
        LET r == request
            off_x == CenterOffset(r.display_width, r.target_width)
            off_y == CenterOffset(r.display_height, r.target_height)
        IN  /\ DOMAIN returned.lines = 0..(r.target_height - 1)
            /\ \A ty \in 0..(r.target_height - 1) :
                  /\ DOMAIN returned.lines[ty] = 0..(r.target_width - 1)
                  /\ \A tx \in 0..(r.target_width - 1) :
                        LET sx == r.start_x + tx - off_x
                            sy == r.start_y + ty - off_y
                            in_window ==
                                /\ off_x <= tx /\ tx < off_x + r.display_width
                                /\ off_y <= ty /\ ty < off_y + r.display_height
                            in_grid ==
                                /\ sy \in DOMAIN r.fractal_data
                                /\ sx \in DOMAIN r.fractal_data[sy]
                        IN  returned.lines[ty][tx] =
                              IF in_window /\ in_grid
                              THEN SpanOf(renderer,
                                          iterations_to_char_and_color(
                                              renderer, r.fractal_data[sy][sx]))
                              ELSE SpanOf(renderer, <<" ", "Black">>)

\* A window narrower than the target has been rendered: the first column is
\* padding and a later one carries a glyph of the grid that is not a blank.
C13_Witness ==
    /\ returned.called
    /\ NonEmptyGrid(request.fractal_data)
    /\ CenterOffset(request.display_width, request.target_width) > 0
    /\ returned.lines[0][0] = SpanOf(renderer, <<" ", "Black">>)
    /\ \E tx \in DOMAIN returned.lines[0] : returned.lines[0][tx].content # " "

\* ------------------------------------------------------------------------
\* Numeric degeneracy (checked under SpecGen)
\* ------------------------------------------------------------------------

\* The loop state a cell's iteration ends in, for the variant's own rule.
VariantEnd(t, point, budget) ==
    LET zero == [z |-> <<0, 0>>, iterations |-> 0]
    IN  CASE t.kind \in {"Mandelbrot", "Custom"} ->
                EscapeEnd("mandelbrot", zero, point, 2, budget)
          [] t.kind = "Julia" ->
                EscapeEnd("julia", [z |-> point, iterations |-> 0], t.c, 2, budget)
          [] t.kind = "BurningShip" -> EscapeEnd("burning_ship", zero, point, 2, budget)
          [] t.kind = "Tricorn" -> EscapeEnd("tricorn", zero, point, 2, budget)
          [] t.kind = "Multibrot" -> EscapeEnd("multibrot", zero, point, t.power, budget)

\* The budget the code iterates the request's variant with.
BudgetUsed(gen, params) ==
    IF params.fractal_type.kind \in {"Mandelbrot", "Custom"}
    THEN MandelbrotBudget(gen, params.max_iterations)
    ELSE params.max_iterations

\* C14: a cell whose iterated value becomes NaN gets the maximum budget of its
\* iteration, not the count at which the NaN appeared (grids generated cell by
\* cell: no super-sampling, no adaptive sampling).
C14_NaNClamped ==
    (returned.called /\ ~fractal_generator.super_sampling /\ ~AdaptiveTriggered) =>
        \A y \in 0..(request.height - 1) : \A x \in 0..(request.width - 1) :
            LET budget == BudgetUsed(fractal_generator, request)
                end == VariantEnd(request.fractal_type, PixelPoint(request, x, y), budget)
            IN  IsNaN(end.z) => returned.grid[y][x] = budget


\* ------------------------------------------------------------------------
\* The parallel rows (checked under SpecRows)
\* ------------------------------------------------------------------------

\* Every finished row is the row of its own index, computed from the request
\* alone, and no index is finished twice.
RowsIndependent ==
    \A i \in 1..Len(finished_rows) :
        LET y == finished_rows[i].index
        IN  /\ finished_rows[i].row = RowOf(fractal_generator, request, y)
            /\ \A j \in 1..Len(finished_rows) : finished_rows[j].index = y => j = i

\* C15: each worker's row depends only on the request and its own index, and
\* whatever order the row workers finish in, the grid the call returns is the
\* grid of the rows computed one after the other in index order.
C15_RowsDeterministic ==
    /\ RowsIndependent
    /\ returned.called =>
           returned.grid = generate_mandelbrot(fractal_generator, request)

\* A call whose last row finished first, on a grid whose rows differ.
C15_Witness ==
    /\ returned.called
    /\ ~UsesAdaptive(fractal_generator, request)
    /\ Len(finished_rows) = 3
    /\ finished_rows[1].index = 2
    /\ finished_rows[1].row # finished_rows[2].row
    /\ finished_rows[1].row # finished_rows[3].row


\* ------------------------------------------------------------------------
\* Generated counts seen by the renderer (checked under SpecGen)
\* ------------------------------------------------------------------------

\* The glyph and color of the last, unbounded bucket of the selected table.
InSetGlyph(rend) ==
    LET arms == SelectedArms(rend)
    IN  <<arms[Len(arms)].glyph, arms[Len(arms)].color>>

\* C16: a cell equal to the budget its request was iterated with (a point that
\* did not escape) gets the in-set glyph and color, the one of the last,
\* unbounded bucket, under every (palette, detail) selection.
C16_BudgetIsInSet ==
    returned.called =>
        \A y \in DOMAIN returned.grid : \A x \in DOMAIN returned.grid[y] :
            returned.grid[y][x] = BudgetUsed(fractal_generator, request) =>
                \A use_unicode \in BOOLEAN, quality_mode \in BOOLEAN :
                    LET rend == Selection(use_unicode, quality_mode)
                    IN  iterations_to_char_and_color(rend, returned.grid[y][x])
                            = InSetGlyph(rend)


\* ------------------------------------------------------------------------
\* Construction (checked under Spec)
\* ------------------------------------------------------------------------

\* C18: a newly created App has should_quit false, zoom_factor 1.0, center
\* (-0.5, 0.0), max_iterations 100, an empty fractal_cache, and neither a
\* fractal display area nor a last terminal size. (frame_count 0 and fps 0.0
\* are fields the model leaves out; App::new sets both so.)
C18_InitialState ==
    AppNew =>
        /\ should_quit = FALSE
        /\ zoom_factor = ZoomUnit
        /\ center_x = -(CoordUnit \div 2)
        /\ center_y = 0
        /\ max_iterations = 100
        /\ fractal_cache = <<>>
        /\ fractal_display_area = None
        /\ last_terminal_size = None


\* ------------------------------------------------------------------------
\* Configuration boundary (checked under SpecConfig)
\* ------------------------------------------------------------------------

\* C19: validate returns an error for every configuration whose default width
\* or height is zero, whose default zoom is not positive, or whose default max
\* iterations is zero, and returns Ok for the default configuration.
C19_InvalidRejected ==
    returned.called =>
        /\ ( \/ request.default_width = 0
             \/ request.default_height = 0
             \/ request.default_zoom <= 0
             \/ request.default_max_iterations = 0 ) => ~returned.result.ok
        /\ request = ConfigDefault => returned.result.ok


\* ------------------------------------------------------------------------
\* Size of the grid on display (checked under Spec)
\* ------------------------------------------------------------------------

\* data is non-empty with max(area.height - 2, 10) rows and max(area.width - 2,
\* 20) columns (the subtraction stopping at 0), or 24 rows by 80 columns
\* without an area.
SizedFor(data, area) ==
    /\ ~data.empty
    /\ IF area.some
       THEN /\ data.height = Max(IF area.value.height >= 2 THEN area.value.height - 2 ELSE 0, 10)
            /\ data.width = Max(IF area.value.width >= 2 THEN area.value.width - 2 ELSE 0, 20)
       ELSE data.height = 24 /\ data.width = 80

\* C20: a regenerate_fractal call made in any reachable state, generated afresh
\* or served from the cache (as the call repeated is, below the insert ceiling),
\* leaves fractal_data non-empty and of the size the display area gives.
C20_DataSized ==
    /\ SizedFor(FirstCall.fractal_data, fractal_display_area)
    /\ SizedFor(SecondCall.fractal_data, fractal_display_area)

\* A call served from the cache for a display area below the minimum size.
C20_Witness ==
    /\ fractal_display_area = Some(Rect(10, 5))
    /\ CurrentKey \in DOMAIN fractal_cache
    /\ FirstCall.generation_count = generation_count
    /\ fractal_data = FirstCall.fractal_data
    /\ fractal_data.width = 20
    /\ fractal_data.height = 10


\* ------------------------------------------------------------------------
\* Adaptive sampling of the Mandelbrot grid (checked under SpecGen)
\* ------------------------------------------------------------------------

\* The pixel whose count cell index i shows: the even pixel of its block when
\* adaptive sampling is triggered, i itself otherwise.
SampledIndex(i) == IF AdaptiveTriggered THEN 2 * (i \div 2) ELSE i

\* C21: without super-sampling, cell (x, y) of the Mandelbrot grid is the
\* iteration count at pixel (2*floor(x/2), 2*floor(y/2)) when the flag is set
\* and zoom > 10, and the count at its own pixel (x, y) when the flag is clear
\* or zoom <= 10, zoom exactly 10.0 included.
C21_AdaptiveReplication ==
    ( /\ returned.called
      /\ ~fractal_generator.super_sampling
      /\ request.fractal_type.kind \in {"Mandelbrot", "Custom"} ) =>
        \A y \in 0..(request.height - 1) : \A x \in 0..(request.width - 1) :
            returned.grid[y][x] =
                mandelbrot_iterations(
                    PixelPoint(request, SampledIndex(x), SampledIndex(y)),
                    MandelbrotBudget(fractal_generator, request.max_iterations))

\* A Mandelbrot grid sampled adaptively that differs from the per-pixel grid.
C21_Witness ==
    /\ returned.called
    /\ ~fractal_generator.super_sampling
    /\ request.fractal_type = Mandelbrot
    /\ AdaptiveTriggered
    /\ returned.grid #
         generate([fractal_generator EXCEPT !.use_adaptive_sampling = FALSE], request)


\* ------------------------------------------------------------------------
\* Width of the budget arithmetic (checked under SpecBudget)
\* ------------------------------------------------------------------------

\* min(floor(3 * n / 2), 512) in exact arithmetic: past the cap the minimum is
\* the cap.
ExactQualityBudget(n) == IF n > QualityCap THEN QualityCap ELSE Min((n * 3) \div 2, QualityCap)

\* C22: with quality_mode set and performance_mode clear, for every
\* max_iterations the budget is computed without a fault and equals
\* min(floor(3 * max_iterations / 2), 512) in exact arithmetic.
C22_BudgetNoOverflow ==
    ( /\ returned.called
      /\ fractal_generator.quality_mode
      /\ ~fractal_generator.performance_mode ) =>
        /\ ~returned.panicked
        /\ returned.budget = ExactQualityBudget(request.max_iterations)


\* ------------------------------------------------------------------------
\* Size of the cache (checked under SpecFill)
\* ------------------------------------------------------------------------

\* The regenerate_fractal call made in the current state would take the branch
\* that clears the cache at 100 entries.
ClearBranchTaken ==
    /\ CurrentKey \notin DOMAIN fractal_cache
    /\ CacheLen(fractal_cache) >= 50
    /\ CacheLen(fractal_cache) >= 100

\* C23: fractal_cache never holds more than 50 entries; once it holds 50, a
\* step either leaves it as it is or empties it (an explicit clear), and a
\* regenerate_fractal call inserts nothing; the clear-on-100 branch is never
\* taken.
C23_CacheAtMostFifty ==
    /\ [](/\ CacheLen(fractal_cache) <= 50
          /\ CacheLen(fractal_cache) = 50 => FirstCall.fractal_cache = fractal_cache
          /\ ~ClearBranchTaken)
    /\ [][CacheLen(fractal_cache) = 50 =>
             (fractal_cache' = fractal_cache \/ fractal_cache' = <<>>)]_vars

\* The cache is full and a view it does not hold has just been generated.
C23_Witness ==
    /\ CacheLen(fractal_cache) = 50
    /\ CurrentKey \notin DOMAIN fractal_cache
    /\ generation_count > 50
    /\ ~fractal_data.empty
    /\ fractal_data.params = CurrentParams


\* ------------------------------------------------------------------------
\* Cache and generator flags (checked under Spec)
\* ------------------------------------------------------------------------

\* C24: every grid stored in fractal_cache was generated with the flags the
\* generator has now, so the grid a regenerate_fractal call serves from the
\* cache (or generates) was computed under the current flags.
C24_CacheUnderCurrentFlags ==
    /\ \A k \in DOMAIN fractal_cache : fractal_cache[k].gen = fractal_generator
    /\ FirstCall.fractal_data.gen = fractal_generator

\* After a flag was toggled, the cache holds the current view again.
C24_Witness ==
    /\ fractal_generator # NewGenerator
    /\ CurrentKey \in DOMAIN fractal_cache
    /\ CacheLen(fractal_cache) > 1
    /\ FirstCall.fractal_data = fractal_cache[CurrentKey]

\* C25: the input mode is Editing exactly when the mode is EquationEditor, and a
\* key press sets should_quit only while the input mode is Normal (where 'q' and
\* Esc quit); Esc in the editor leaves the editor for the Interactive mode and
\* does not quit.
C25_EditingIffEditor ==
    /\ [](input_mode = "Editing" <=> mode = "EquationEditor")
    /\ [][(should_quit' /\ ~should_quit) => input_mode = "Normal"]_vars
    /\ [][(input_mode = "Editing" /\ input_mode' = "Normal" /\ mode' # "Interactive")
            => FALSE]_vars
    /\ [][(input_mode = "Editing" /\ input_mode' = "Normal") => ~should_quit']_vars

\* The editor was entered and left with Esc; the text typed meanwhile stays.
C25_Witness ==
    /\ input_mode = "Normal"
    /\ mode = "Interactive"
    /\ ~should_quit
    /\ current_fractal_type = Mandelbrot
    /\ current_equation = <<"z", "^", "3">>

\* C27: Enter in the editor on a text that validate_and_apply_equation rejects
\* leaves the fractal type, the equation text, the grid, the cache, the
\* generation count, the mode and the input mode as they were: the App stays in
\* the editor.
C27_RejectedEnterChangesNothing ==
    (input_mode = "Editing"
        /\ ~validate_and_apply_equation(current_fractal_type, current_equation).ok)
    => EnterPressed = [input_mode |-> "Editing",
                       mode |-> "EquationEditor",
                       current_fractal_type |-> current_fractal_type,
                       current_equation |-> current_equation,
                       fractal_data |-> fractal_data,
                       fractal_cache |-> fractal_cache,
                       generation_count |-> generation_count]

\* The editor holds "z^12+c", whose power is out of range, after an earlier
\* equation was applied.
C27_Witness ==
    /\ input_mode = "Editing"
    /\ current_equation = <<"z", "^", "1", "2", "+", "c">>
    /\ ~validate_and_apply_equation(current_fractal_type, current_equation).ok
    /\ current_fractal_type = Tricorn
    /\ ~fractal_data.empty
    /\ EnterPressed.current_fractal_type = Tricorn

\* The values max_iterations takes, and zooms on both sides of the thresholds
\* the handlers compare the zoom with.
IterationValues == MinIterationsFloor..MaxIterationsCap
ZoomSamples ==
    { ZoomUnit, 5 * ZoomUnit, 5 * ZoomUnit + 1, 10 * ZoomUnit, 10 * ZoomUnit + 1,
      35 * ZoomUnit, 199 * ZoomUnit, 200 * ZoomUnit, 1000 * ZoomUnit }

\* What the handlers that write max_iterations make of mi at the zoom zoom:
\* increase_iterations caps at 1000, decrease_iterations floors at 10, a tick of
\* auto-generation leaves it, or sets 100 or at most 500, and every result is
\* within [10, 1000].
HandlersKeepRange(mi, zoom) ==
    /\ increase_iterations(mi) \in IterationValues
    /\ decrease_iterations(mi) \in IterationValues
    /\ AutoIterations(mi, zoom) \in {mi} \cup (AutoIterationsBase..AutoIterationsCap)
    /\ AutoIterationsBase \in IterationValues
    /\ \A fps \in FpsReadings :
          optimize_parameters_for_performance(mi, zoom, fps) \in IterationValues

\* optimize_parameters_for_performance leaves mi within [50, 200] whenever it
\* changes it, at the frame rates of readings.
OptimizeWithinBand(mi, zoom, readings) ==
    \A fps \in readings :
       LET o == optimize_parameters_for_performance(mi, zoom, fps)
       IN  o # mi => (o >= OptimizeFloor /\ o <= OptimizeCap)

\* optimize_parameters_for_performance lowers mi to 50 or more and raises it to
\* 200 or less, at the frame rates of readings.
OptimizeTowardsBand(mi, zoom, readings) ==
    \A fps \in readings :
       LET o == optimize_parameters_for_performance(mi, zoom, fps)
       IN  /\ o < mi => o >= OptimizeFloor
           /\ o > mi => o <= OptimizeCap

HandlersClosed ==
    \A mi \in IterationValues : \A zoom \in ZoomSamples :
        HandlersKeepRange(mi, zoom) /\ OptimizeTowardsBand(mi, zoom, FpsReadings)

Displayed(kind) ==
    ~fractal_data.empty /\ fractal_data.params.fractal_type.kind = kind

AutoMode == mode = "AutoGenerate"

\* From App::new, where the zoom is 1.0 when '2' is pressed (checked under
\* SpecAuto): auto_generation_phase stays in 0..=601; a tick at a phase up to 600
\* increments it, the tick at 601 resets it to 0, sets max_iterations to 100 and
\* advances the fractal type along Mandelbrot -> BurningShip -> Julia -> Tricorn
\* -> Multibrot(3) -> Mandelbrot; and under fair ticking each of the five
\* variants is displayed again and again.
AutoCycleFromNew ==
    /\ [](auto_generation_phase \in 0..(DeepPhaseEnd + 1))
    /\ [][(AutoMode /\ AutoMode' /\ auto_generation_phase <= DeepPhaseEnd)
            => auto_generation_phase' = auto_generation_phase + 1]_vars
    /\ [][(AutoMode /\ AutoMode' /\ auto_generation_phase = DeepPhaseEnd + 1)
            => /\ auto_generation_phase' = 0
               /\ max_iterations' = 100
               /\ current_fractal_type' =
                     CASE current_fractal_type = Mandelbrot -> BurningShip
                       [] current_fractal_type = BurningShip -> JuliaPreset
                       [] current_fractal_type = JuliaPreset -> Tricorn
                       [] current_fractal_type = Tricorn -> Multibrot3
                       [] current_fractal_type = Multibrot3 -> Mandelbrot]_vars
    /\ \A kind \in {"Mandelbrot", "BurningShip", "Julia", "Tricorn", "Multibrot"} :
          []<>Displayed(kind)

\* The cycle came round: the type before the reset was Multibrot(3), the tick at
\* phase 601 made it Mandelbrot and set 100 iterations, and the grid of the reset
\* is on display.
AutoCycleCameRound ==
    /\ AutoMode
    /\ auto_generation_phase = 0
    /\ current_fractal_type = Mandelbrot
    /\ max_iterations = 100
    /\ Displayed("Mandelbrot")
    /\ fractal_data.params.max_iterations = 100
    /\ zoom_factor > 10 * ZoomUnit

\* C28: in AutoGenerate mode with no further key input, every auto-update tick at
\* a phase of 600 or less increments auto_generation_phase by one (so that the
\* phase runs through 0..=601 and the five variants come round): the first tick
\* after '2' completes and leaves the phase at 1.
C28_TickIncrementsPhase ==
    returned.called =>
        /\ ~returned.panicked
        /\ returned.auto_generation_phase = 1

\* The 2x2 block of the doubled grid after adaptive coarsening: one count,
\* replicated (generate_mandelbrot_adaptive with sample_step 2).
Replicated(block) == \A i \in 1..4 : block[i] = block[1]

\* C29: with super-sampling and adaptive sampling both in effect, the doubled
\* grid is coarsened into replicated 2x2 blocks and box-downsampled, and the
\* cell that comes out equals the count of the block, the count plain per-pixel
\* generation computes at that pixel.
C29_SuperAdaptiveExact ==
    (returned.called /\ Replicated(request.block)) =>
        /\ ~returned.panicked
        /\ returned.cell = request.block[1]

\* C5, for counts of the whole u32 range: the cell that downsample_fractal
\* returns is the floor of the average of the four source cells.
C5_BoxMeanAnyCount ==
    returned.called =>
        /\ ~returned.panicked
        /\ Wide(returned.cell) = WideDiv(BlockTotal(request.block), 4)

\* A call returned in this step: the calls record themselves in request and
\* returned, the setters leave both alone.
CallReturned(op) ==
    /\ <<request, returned>>' # <<request, returned>>
    /\ returned'.op = op

\* A render_to_text call with use_fast_rendering enabled on a non-empty grid
\* returned in this step.
KeepingCallReturned ==
    /\ CallReturned("render_to_text")
    /\ returned'.use_fast_rendering
    /\ NonEmptyGrid(request'.fractal_data)

\* C30: last_rendered_data is written only by render_to_text called with
\* use_fast_rendering enabled on a non-empty grid, and then equals the grid passed
\* in; render_to_text with fast rendering disabled or on an empty grid,
\* render_to_text_with_bounds, render_to_string and the setters leave it
\* unchanged, so that the retained grid is always the grid of the most recent
\* such call.
C30_RetainedGridFrame ==
    /\ [][renderer'.last_rendered_data # renderer.last_rendered_data
            => KeepingCallReturned]_vars
    /\ [][KeepingCallReturned
            => renderer'.last_rendered_data = Some(request'.fractal_data)]_vars
    /\ [][(CallReturned("render_to_text") /\ ~KeepingCallReturned)
            => renderer'.last_rendered_data = renderer.last_rendered_data]_vars
    /\ [][(CallReturned("render_to_text_with_bounds") \/ CallReturned("render_to_string"))
            => renderer' = renderer]_vars
    /\ [][<<request, returned>>' = <<request, returned>>
            => renderer'.last_rendered_data = renderer.last_rendered_data]_vars

\* A grid was retained, fast rendering was switched off and another grid of the
\* same size rendered, and then render_to_string returned: the retained grid is
\* still the first one.
C30_Witness ==
    /\ returned.called
    /\ returned.op = "render_to_string"
    /\ ~renderer.use_fast_rendering
    /\ NonEmptyGrid(request.fractal_data)
    /\ renderer.last_rendered_data.some
    /\ renderer.last_rendered_data.value # request.fractal_data
    /\ SameDimensions(renderer.last_rendered_data.value, request.fractal_data)

====
